---------------------------- MODULE Spec2Model ----------------------------
(***************************************************************************)
(* A model of the JSON-file store layer of the resume generator           *)
(* (lib/json_store): JsonFile, slugify / ensure_unique_id, MasterStore,    *)
(* GenerationStore, JobConfigStore and PromptStore, together with the      *)
(* endpoints of api/server.py that work on them.                           *)
(*                                                                         *)
(* Strings are sequences of one-character strings, so that slugify can be  *)
(* computed character by character.  A JSON object is a function whose     *)
(* domain is its set of keys; a JSON array is a sequence.                  *)
(***************************************************************************)
EXTENDS Integers, Sequences, FiniteSets, TLC

VARIABLES
    \* one run of ensure_unique_id (base.py)
    eu_pc, eu_in, eu_slug, eu_idx, eu_out,
    \* the master file and the MasterStore working on it (sequential use)
    master, constructed, before, last, deleted_exp, ops_done,
    \* request threads sharing one JsonFile: the files on disk, the lock, and
    \* each thread's request, position, local document and exception
    disk, lock, th_pc, th_req, th_data, th_exc, th_prev, th_left, doc0,
    \* the GenerationStore: the index document, the asset files under
    \* files_root, whether the import of pdfkit succeeded, the last request and
    \* the ids delete_item has reported as deleted
    gen_index, gen_files, pdfkit, gen_before, gen_last, gen_expect, gen_ops,
    gen_deleted,
    \* the JobConfigStore: the files of the jobs directory and the last request
    jobs_dir, job_before, job_last, job_ops,
    \* request threads inside create_config for one slug: the names of the
    \* jobs directory and the files they name, and each thread's position,
    \* payload, document, open handle and exception
    jc_names, jc_inodes, jc_pc, jc_payload, jc_data, jc_fd, jc_exc,
    \* the PromptStore: the prompts file and the last request
    prompts_file, pr_last, pr_ops,
    \* settings.openai_api_key, fixed when the server starts
    openai_api_key

eu_vars == <<eu_pc, eu_in, eu_slug, eu_idx, eu_out>>
ms_vars == <<master, constructed, before, last, deleted_exp, ops_done>>
th_vars == <<disk, lock, th_pc, th_req, th_data, th_exc, th_prev, th_left, doc0>>
gen_vars == <<gen_index, gen_files, pdfkit, gen_before, gen_last, gen_expect, gen_ops,
              gen_deleted>>
jc_vars == <<jc_names, jc_inodes, jc_pc, jc_payload, jc_data, jc_fd, jc_exc>>
job_vars == <<jobs_dir, job_before, job_last, job_ops, jc_vars>>
pr_vars == <<prompts_file, pr_last, pr_ops>>
\* the stores beside the master store, and the API key
st_vars == <<gen_vars, job_vars, pr_vars, openai_api_key>>
vars == <<eu_vars, ms_vars, th_vars, st_vars>>

-----------------------------------------------------------------------------
(* Bounds of the model *)

\* longest base string handed to ensure_unique_id in SpecUnique
MaxLen == 3
\* largest set of existing ids in SpecUnique
MaxExisting == 3
\* most entries (experience, projects and skills together) of a hand-edited
\* master file in SpecSchema
MaxRawEntries == 3
\* most MasterStore operations in one run of Spec
MaxOps == 3
\* request threads in SpecThreads
NumThreads == 2

-----------------------------------------------------------------------------
(* Characters and strings *)

LowerLetters == <<"a","b","c","d","e","f","g","h","i","j","k","l","m",
                  "n","o","p","q","r","s","t","u","v","w","x","y","z">>
UpperLetters == <<"A","B","C","D","E","F","G","H","I","J","K","L","M",
                  "N","O","P","Q","R","S","T","U","V","W","X","Y","Z">>
DigitChars == <<"0","1","2","3","4","5","6","7","8","9">>

Range(s) == {s[i] : i \in DOMAIN s}

\* the characters the model's input strings are built from
Alphabet == {"a", "A", "2", " ", "-", "!"}

SpaceChars == {" ", "\t", "\n"}

IsSpace(c) == c \in SpaceChars

\* str.lower() on one character
LowerChar(c) ==
    IF \E i \in DOMAIN UpperLetters : UpperLetters[i] = c
    THEN LowerLetters[CHOOSE i \in DOMAIN UpperLetters : UpperLetters[i] = c]
    ELSE c

Lower(s) == [i \in DOMAIN s |-> LowerChar(s[i])]

\* s without its leading characters that are in drop
RECURSIVE LStrip(_, _)
LStrip(s, drop) ==
    IF s # <<>> /\ Head(s) \in drop THEN LStrip(Tail(s), drop) ELSE s

\* s without its trailing characters that are in drop
RECURSIVE RStrip(_, _)
RStrip(s, drop) ==
    IF s # <<>> /\ s[Len(s)] \in drop
    THEN RStrip(SubSeq(s, 1, Len(s) - 1), drop)
    ELSE s

\* str.strip(): whitespace removed at both ends
Strip(s) == RStrip(LStrip(s, SpaceChars), SpaceChars)

IsHyphen(c) == c = "-"

\* str.strip("-")
StripHyphens(s) == RStrip(LStrip(s, {"-"}), {"-"})

\* the characters re.sub(r"[^a-z0-9\s-]", "", value) keeps
IsSlugChar(c) ==
    \/ c \in Range(LowerLetters)
    \/ c \in Range(DigitChars)
    \/ IsSpace(c)
    \/ IsHyphen(c)

IsSeparator(c) == IsSpace(c) \/ IsHyphen(c)

\* re.sub(r"[\s\-]+", "-", value): every maximal run of separators becomes "-"
RECURSIVE CollapseSeparators(_)
CollapseSeparators(s) ==
    IF s = <<>> THEN <<>>
    ELSE IF IsSeparator(Head(s))
         THEN <<"-">> \o CollapseSeparators(LStrip(s, SpaceChars \cup {"-"}))
         ELSE <<Head(s)>> \o CollapseSeparators(Tail(s))

\* str(n) for a natural number
RECURSIVE ToStr(_)
ToStr(n) ==
    IF n < 10 THEN <<DigitChars[n + 1]>>
    ELSE ToStr(n \div 10) \o <<DigitChars[(n % 10) + 1]>>

\* the values str(uuid.uuid4()) can take; each stands for one random uuid
UUIDs == {<<"uuid-1">>, <<"uuid-2">>}

\* slugify(value); u is the value uuid.uuid4() draws if it is called
slugify(value, u) ==
    IF value = <<>> THEN u
    ELSE LET v1 == Lower(Strip(value))
             v2 == SelectSeq(v1, IsSlugChar)
             v3 == CollapseSeparators(v2)
             v4 == StripHyphens(v3)
         IN  IF v4 = <<>> THEN u ELSE v4

\* a mutant of Suffixed: the counter is formatted one too high
SuffixedSkipsOne(slug, idx) == slug \o <<"-">> \o ToStr(idx + 1)

\* f"{slug}-{idx}"
Suffixed(slug, idx) == slug \o <<"-">> \o ToStr(idx)

\* the while loop of ensure_unique_id, entered with idx
RECURSIVE FirstFreeIdx(_, _, _)
FirstFreeIdx(slug, existing, idx) ==
    IF Suffixed(slug, idx) \in existing
    THEN FirstFreeIdx(slug, existing, idx + 1)
    ELSE idx

ensure_unique_id(base, existing, u) ==
    LET slug == slugify(base, u)
    IN  IF slug \notin existing THEN slug
        ELSE Suffixed(slug, FirstFreeIdx(slug, existing, 2))

-----------------------------------------------------------------------------
(* JSON values *)

\* Python's None; no string equals it (a string's elements are single characters)
None == <<"<None>">>

\* the empty JSON object, {}
EmptyObject == [k \in {} |-> <<>>]

\* obj.get(key, default)
Get(obj, key, default) == IF key \in DOMAIN obj THEN obj[key] ELSE default

\* obj[key] = val
Put(obj, key, val) ==
    [k \in DOMAIN obj \cup {key} |-> IF k = key THEN val ELSE obj[k]]

\* truth value of a string or None: "if value" / "value or ..."
Truthy(v) == v # None /\ v # <<>>

\* list(dict.fromkeys(values)): first occurrences, in order
RECURSIVE Dedupe(_)
Dedupe(values) ==
    IF values = <<>> THEN <<>>
    ELSE LET rest == Dedupe(SubSeq(values, 1, Len(values) - 1))
             x == values[Len(values)]
         IN  IF x \in Range(rest) THEN rest ELSE Append(rest, x)

\* [x for x in values if x != drop]
Without(values, drop) == SelectSeq(values, LAMBDA x : x # drop)

Experience(data) == Get(data, "experience", <<>>)
Projects(data) == Get(data, "projects", <<>>)
Skills(data) == Get(data, "skills", EmptyObject)

\* items[i].get("id")
IdAt(list, i) == Get(list[i], "id", None)

str_project == <<"p","r","o","j","e","c","t">>
str_experience == <<"e","x","p","e","r","i","e","n","c","e">>
str_skill == <<"s","k","i","l","l">>

\* the uuid the i-th entry of a list draws, should it need one
Draw(d, i) == d[((i - 1) % Len(d)) + 1]

-----------------------------------------------------------------------------
(* MasterStore._ensure_schema *)

\* master_store.py:28-34: ids of the experience entries
RECURSIVE ExperienceIdLoop(_, _, _, _, _)
ExperienceIdLoop(items, i, exp_ids, mutated, d) ==
    IF i > Len(items) THEN [items |-> items, mutated |-> mutated]
    ELSE LET item == items[i]
             need == ~Truthy(Get(item, "id", None))
             item2 == IF need
                      THEN Put(item, "id",
                               ensure_unique_id(Get(item, "company", str_experience),
                                                exp_ids, Draw(d, i)))
                      ELSE item
         IN  ExperienceIdLoop([items EXCEPT ![i] = item2], i + 1,
                              exp_ids \cup {item2["id"]}, mutated \/ need, d)

\* master_store.py:45-53: the three defaults of a project
ProjectDefaults(project) ==
    LET p1 == IF "description_short" \notin DOMAIN project
              THEN Put(project, "description_short", <<>>) ELSE project
        p2 == IF "skills_used" \notin DOMAIN p1
              THEN Put(p1, "skills_used", <<>>) ELSE p1
    IN  IF "linked_experience" \notin DOMAIN p2
        THEN Put(p2, "linked_experience", <<>>) ELSE p2

\* master_store.py:37-53: ids and defaults of the projects
RECURSIVE ProjectLoop(_, _, _, _, _)
ProjectLoop(projects, i, project_ids, mutated, d) ==
    IF i > Len(projects) THEN [items |-> projects, mutated |-> mutated]
    ELSE LET project == projects[i]
             need == ~Truthy(Get(project, "id", None))
             p1 == IF need
                   THEN Put(project, "id",
                            ensure_unique_id(Get(project, "name", str_project),
                                             project_ids, Draw(d, i)))
                   ELSE project
             p2 == ProjectDefaults(p1)
         IN  ProjectLoop([projects EXCEPT ![i] = p2], i + 1,
                         project_ids \cup {p1["id"]}, mutated \/ (p2 # project), d)

\* A skill entry that is a plain string s in the file is written [str |-> s];
\* every other entry is a JSON object.
IsDict(entry) == "str" \notin DOMAIN entry

\* a normalization that gives every entry a new id, whether it has one or not
NormalizedSkillFreshId(entry, seen_ids, u) ==
    LET label == Strip(IF IsDict(entry) THEN Get(entry, "label", <<>>)
                       ELSE entry["str"])
    IN  [id |-> ensure_unique_id(IF label # <<>> THEN label ELSE str_skill,
                                 seen_ids \cup {Get(entry, "id", None)}, u),
         label |-> label]

\* master_store.py:61-66: the id and label of one normalized skill entry
NormalizedSkill(entry, seen_ids, u) ==
    IF IsDict(entry)
    THEN [id |-> IF Truthy(Get(entry, "id", None)) THEN entry["id"]
                 ELSE ensure_unique_id(Get(entry, "label", str_skill), seen_ids, u),
          label |-> Strip(Get(entry, "label", <<>>))]
    ELSE LET label == Strip(entry["str"])
         IN  [id |-> ensure_unique_id(IF label # <<>> THEN label ELSE str_skill,
                                      seen_ids, u),
              label |-> label]

\* master_store.py:69: the test that leaves 'mutated' alone
SkillEntryKept(entry, norm) ==
    /\ IsDict(entry)
    /\ Get(entry, "id", None) = norm["id"]
    /\ Strip(Get(entry, "label", <<>>)) = norm["label"]

\* master_store.py:58-72: one category
RECURSIVE SkillLoop(_, _, _, _, _, _)
SkillLoop(entries, i, normalized, seen_ids, mutated, d) ==
    IF i > Len(entries) THEN [items |-> normalized, mutated |-> mutated]
    ELSE LET norm == NormalizedSkill(entries[i], seen_ids, Draw(d, i))
         IN  SkillLoop(entries, i + 1, Append(normalized, norm),
                       seen_ids \cup {norm["id"]},
                       mutated \/ ~SkillEntryKept(entries[i], norm), d)

\* MasterStore._ensure_schema on the document 'data' read from the file:
\* whether it writes, and the document it writes
EnsureSchema(data, d) ==
    IF data = EmptyObject THEN [wrote |-> FALSE, data |-> data]
    ELSE LET exp == ExperienceIdLoop(Get(data, "experience", <<>>), 1, {}, FALSE, d)
             prj == ProjectLoop(Get(data, "projects", <<>>), 1, {}, FALSE, d)
             skills == Get(data, "skills", EmptyObject)
             cat == [c \in DOMAIN skills |->
                        SkillLoop(skills[c], 1, <<>>, {}, FALSE, d)]
             mutated == \/ exp.mutated
                        \/ prj.mutated
                        \/ \E c \in DOMAIN skills : cat[c].mutated
             \* the lists are changed in place; a missing section stays missing
             d1 == IF "experience" \in DOMAIN data
                   THEN Put(data, "experience", exp.items) ELSE data
             d2 == IF "projects" \in DOMAIN data
                   THEN Put(d1, "projects", prj.items) ELSE d1
             d3 == IF "skills" \in DOMAIN data
                   THEN Put(d2, "skills", [c \in DOMAIN skills |-> cat[c].items])
                   ELSE d2
         IN  [wrote |-> mutated, data |-> d3]

-----------------------------------------------------------------------------
(* MasterStore operations.  Each takes the document its self._read()        *)
(* returned and yields: the exception raised ("none" if it returned),       *)
(* whether it read and wrote the file, the document written and the value   *)
(* returned.                                                                 *)

Returned(data, ret) ==
    [exc |-> "none", read |-> TRUE, wrote |-> TRUE, data |-> data, ret |-> ret]

Raised(exc, read, data) ==
    [exc |-> exc, read |-> read, wrote |-> FALSE, data |-> data, ret |-> None]

\* {x.get("id") for x in items if x.get("id")}
TruthyIds(items) ==
    {IdAt(items, i) : i \in {j \in DOMAIN items : Truthy(IdAt(items, j))}}

\* MasterStore._normalize_bullets for a list of strings
normalize_bullets(values) ==
    SelectSeq([i \in DOMAIN values |-> Strip(values[i])], LAMBDA text : text # <<>>)

\* obj.setdefault(key, default): the object with the key present
SetDefault(obj, key, default) ==
    IF key \in DOMAIN obj THEN obj ELSE Put(obj, key, default)

\* a mutant of FindIndex: an id that matches nothing falls back to the first entry
FindIndexOrFirst(items, id) ==
    IF \E i \in DOMAIN items : IdAt(items, i) = id
    THEN CHOOSE i \in DOMAIN items :
            /\ IdAt(items, i) = id
            /\ \A j \in DOMAIN items : IdAt(items, j) = id => i <= j
    ELSE IF items = <<>> THEN 0 ELSE 1

\* MasterStore._find_project_index / _find_experience_index; 0 stands for None
FindIndex(items, id) ==
    IF \E i \in DOMAIN items : IdAt(items, i) = id
    THEN CHOOSE i \in DOMAIN items :
            /\ IdAt(items, i) = id
            /\ \A j \in DOMAIN items : IdAt(items, j) = id => i <= j
    ELSE 0

\* a mutant of create_project: the slug of the name is used as the id as it is
create_project_no_dedupe(data, payload, u) ==
    LET d1 == SetDefault(data, "projects", <<>>)
        project == [id |-> slugify(Get(payload, "name", str_project), u),
                    name |-> Strip(Get(payload, "name", <<>>)),
                    year |-> Strip(Get(payload, "year", <<>>)),
                    description_short |-> Strip(Get(payload, "description_short", <<>>)),
                    bullets |-> normalize_bullets(Get(payload, "bullets", <<>>)),
                    skills_used |-> Dedupe(Get(payload, "skills_used", <<>>)),
                    linked_experience |-> Dedupe(Get(payload, "linked_experience", <<>>))]
    IN  Returned(Put(d1, "projects", Append(d1["projects"], project)), project)

create_project(data, payload, u) ==
    LET d1 == SetDefault(data, "projects", <<>>)
        projects == d1["projects"]
        existing_ids == TruthyIds(projects)
        project_id == ensure_unique_id(Get(payload, "name", str_project), existing_ids, u)
        project == [id |-> project_id,
                    name |-> Strip(Get(payload, "name", <<>>)),
                    year |-> Strip(Get(payload, "year", <<>>)),
                    description_short |-> Strip(Get(payload, "description_short", <<>>)),
                    bullets |-> normalize_bullets(Get(payload, "bullets", <<>>)),
                    skills_used |-> Dedupe(Get(payload, "skills_used", <<>>)),
                    linked_experience |-> Dedupe(Get(payload, "linked_experience", <<>>))]
    IN  Returned(Put(d1, "projects", Append(projects, project)), project)

\* a mutant of UpdatedProject: every key of the payload is taken over
UpdatedProjectAnyKey(project, payload) ==
    [k \in DOMAIN project \cup DOMAIN payload |->
        IF k \in DOMAIN payload THEN payload[k] ELSE project[k]]

\* master_store.py:144-155: the payload's fields laid over the project
UpdatedProject(project, payload) ==
    LET p1 == IF "name" \in DOMAIN payload
              THEN Put(project, "name", Strip(payload["name"])) ELSE project
        p2 == IF "year" \in DOMAIN payload
              THEN Put(p1, "year", Strip(payload["year"])) ELSE p1
        p3 == IF "description_short" \in DOMAIN payload
              THEN Put(p2, "description_short", Strip(payload["description_short"]))
              ELSE p2
        p4 == IF "bullets" \in DOMAIN payload
              THEN Put(p3, "bullets", normalize_bullets(payload["bullets"])) ELSE p3
        p5 == IF "skills_used" \in DOMAIN payload
              THEN Put(p4, "skills_used", Dedupe(payload["skills_used"])) ELSE p4
    IN  IF "linked_experience" \in DOMAIN payload
        THEN Put(p5, "linked_experience", Dedupe(payload["linked_experience"]))
        ELSE p5

update_project(data, project_id, payload) ==
    LET projects == Projects(data)
        idx == FindIndex(projects, project_id)
    IN  IF idx = 0 THEN Raised("KeyError", TRUE, data)
        ELSE LET project == UpdatedProject(projects[idx], payload)
             IN  Returned(Put(data, "projects", [projects EXCEPT ![idx] = project]),
                          project)

delete_project(data, project_id) ==
    LET projects == Projects(data)
        filtered == SelectSeq(projects, LAMBDA p : Get(p, "id", None) # project_id)
    IN  IF Len(filtered) = Len(projects) THEN Raised("KeyError", TRUE, data)
        ELSE Returned(Put(data, "projects", filtered), [deleted |-> project_id])

\* a mutant of add_skill: the inputs are not checked for blanks
add_skill_unchecked(data, category0, label0, u) ==
    LET category == Strip(category0)
        label == Strip(label0)
        d1 == SetDefault(data, "skills", EmptyObject)
        skills == SetDefault(d1["skills"], category, <<>>)
        entries == skills[category]
        entry == [id |-> ensure_unique_id(label, TruthyIds(entries), u), label |-> label]
    IN  Returned(Put(d1, "skills", Put(skills, category, Append(entries, entry))), entry)

add_skill(data, category0, label0, u) ==
    LET category == Strip(category0)
        label == Strip(label0)
    IN  IF category = <<>> \/ label = <<>> THEN Raised("ValueError", FALSE, data)
        ELSE LET d1 == SetDefault(data, "skills", EmptyObject)
                 skills == SetDefault(d1["skills"], category, <<>>)
                 entries == skills[category]
                 existing_ids == TruthyIds(entries)
                 skill_id == ensure_unique_id(label, existing_ids, u)
                 entry == [id |-> skill_id, label |-> label]
             IN  Returned(Put(d1, "skills", Put(skills, category, Append(entries, entry))),
                          entry)

update_skill(data, category, skill_id, label) ==
    LET skills == Skills(data)
    IN  IF category \notin DOMAIN skills THEN Raised("KeyError", TRUE, data)
        ELSE LET entries == skills[category]
                 idx == FindIndex(entries, skill_id)
             IN  IF idx = 0 THEN Raised("KeyError", TRUE, data)
                 ELSE LET entry == Put(entries[idx], "label", Strip(label))
                      IN  Returned(Put(data, "skills",
                                       Put(skills, category,
                                           [entries EXCEPT ![idx] = entry])),
                                   entry)

\* a mutant of Unreferenced: only the first project is cleaned
UnreferencedFirstOnly(projects, key, id) ==
    [i \in DOMAIN projects |->
        IF i = 1 /\ id \in Range(Get(projects[i], key, <<>>))
        THEN Put(projects[i], key, Without(projects[i][key], id))
        ELSE projects[i]]

\* master_store.py:232-234 / 291-295: the id taken out of each project's list
Unreferenced(projects, key, id) ==
    [i \in DOMAIN projects |->
        IF id \in Range(Get(projects[i], key, <<>>))
        THEN Put(projects[i], key, Without(projects[i][key], id))
        ELSE projects[i]]

\* the projects section after the references to id are removed; a file
\* without projects stays without
WithProjects(data, projects) ==
    IF "projects" \in DOMAIN data THEN Put(data, "projects", projects) ELSE data

delete_skill(data, category, skill_id) ==
    LET skills == Skills(data)
    IN  IF category \notin DOMAIN skills THEN Raised("KeyError", TRUE, data)
        ELSE LET entries == skills[category]
                 filtered == SelectSeq(entries, LAMBDA e : Get(e, "id", None) # skill_id)
             IN  IF Len(filtered) = Len(entries) THEN Raised("KeyError", TRUE, data)
                 ELSE LET d1 == Put(data, "skills", Put(skills, category, filtered))
                      IN  Returned(WithProjects(d1, Unreferenced(Projects(d1),
                                                                 "skills_used", skill_id)),
                                   [deleted |-> skill_id, category |-> category])

create_experience(data, payload, u) ==
    LET d1 == SetDefault(data, "experience", <<>>)
        experience == d1["experience"]
        existing_ids == TruthyIds(experience)
        exp_id == ensure_unique_id(Get(payload, "company", str_experience), existing_ids, u)
        item == [id |-> exp_id,
                 company |-> Strip(Get(payload, "company", <<>>)),
                 title |-> Strip(Get(payload, "title", <<>>)),
                 dates |-> Strip(Get(payload, "dates", <<>>)),
                 bullets |-> normalize_bullets(Get(payload, "bullets", <<>>))]
    IN  Returned(Put(d1, "experience", Append(experience, item)), item)

\* master_store.py:270-277: the payload's fields laid over the entry
UpdatedExperience(item, payload) ==
    LET i1 == IF "company" \in DOMAIN payload
              THEN Put(item, "company", Strip(payload["company"])) ELSE item
        i2 == IF "title" \in DOMAIN payload
              THEN Put(i1, "title", Strip(payload["title"])) ELSE i1
        i3 == IF "dates" \in DOMAIN payload
              THEN Put(i2, "dates", Strip(payload["dates"])) ELSE i2
    IN  IF "bullets" \in DOMAIN payload
        THEN Put(i3, "bullets", normalize_bullets(payload["bullets"])) ELSE i3

update_experience(data, experience_id, payload) ==
    LET experience == Experience(data)
        idx == FindIndex(experience, experience_id)
    IN  IF idx = 0 THEN Raised("KeyError", TRUE, data)
        ELSE LET item == UpdatedExperience(experience[idx], payload)
             IN  Returned(Put(data, "experience", [experience EXCEPT ![idx] = item]),
                          item)

\* a mutant of delete_experience: the links of the projects are left alone
delete_experience_keeps_links(data, experience_id) ==
    LET experience == Experience(data)
        filtered == SelectSeq(experience, LAMBDA e : Get(e, "id", None) # experience_id)
    IN  IF Len(filtered) = Len(experience) THEN Raised("KeyError", TRUE, data)
        ELSE Returned(Put(data, "experience", filtered), [deleted |-> experience_id])

delete_experience(data, experience_id) ==
    LET experience == Experience(data)
        filtered == SelectSeq(experience, LAMBDA e : Get(e, "id", None) # experience_id)
    IN  IF Len(filtered) = Len(experience) THEN Raised("KeyError", TRUE, data)
        ELSE LET d1 == Put(data, "experience", filtered)
             IN  Returned(WithProjects(d1, Unreferenced(Projects(d1),
                                                        "linked_experience",
                                                        experience_id)),
                          [deleted |-> experience_id])

-----------------------------------------------------------------------------
(* The HTTP endpoints of api/server.py: status of the response *)

\* the handler's try/except: the exception it catches becomes 'code', any
\* other exception is the framework's 500
Status(r, caught, code, ok) ==
    IF r.exc = "none" THEN ok ELSE IF r.exc = caught THEN code ELSE 500

api_create_project(r) == Status(r, "ValueError", 400, 201)
api_update_project(r) == Status(r, "KeyError", 404, 200)
api_delete_project(r) == Status(r, "KeyError", 404, 200)
api_add_skill(r) == Status(r, "ValueError", 400, 201)
api_update_skill(r) == Status(r, "KeyError", 404, 200)
api_delete_skill(r) == Status(r, "KeyError", 404, 200)
api_create_experience(r) == Status(r, "ValueError", 400, 201)
api_update_experience(r) == Status(r, "KeyError", 404, 200)
api_delete_experience(r) == Status(r, "KeyError", 404, 200)

-----------------------------------------------------------------------------
(* JsonFile: the file and its sibling .tmp file on disk *)

\* A file holds the text json.dumps(doc) + "\n", or the part of it written so
\* far: nothing ("empty"), a proper prefix of the payload ("prefix"), the
\* payload without the newline ("payload") or all of it ("whole").
Missing == [exists |-> FALSE, doc |-> EmptyObject, written |-> "empty"]

Content(doc, written) == [exists |-> TRUE, doc |-> doc, written |-> written]

\* json.load succeeds on the file's text
Parses(content) == content.written \in {"payload", "whole"}

\* a mutant of TmpPath: the payload is written over the target itself
TmpPathIsTarget == "target"

\* base.py:28: self.path.with_suffix(".tmp")
TmpPath == "tmp"

Threads == 1..NumThreads

ThIdle ==
    /\ disk = [f \in {"target", "tmp"} |-> Missing]
    /\ lock = 0
    /\ th_pc = <<>>
    /\ th_req = <<>>
    /\ th_data = <<>>
    /\ th_exc = <<>>
    /\ th_prev = <<>>
    /\ th_left = <<>>
    /\ doc0 = EmptyObject

-----------------------------------------------------------------------------
(* SpecUnique: one call of ensure_unique_id, its loop taken step by step *)

RECURSIVE StringsUpTo(_)
StringsUpTo(n) ==
    IF n = 0 THEN {<<>>}
    ELSE LET shorter == StringsUpTo(n - 1)
         IN  shorter \cup {Append(s, c) : s \in shorter, c \in Alphabet}

\* ids an 'existing' set is drawn from: slugs, suffixed slugs and uuids
ExistingPool ==
    {<<"a">>, <<"a","-","2">>, <<"a","-","3">>, <<"a","-","2","-","2">>,
     <<"2">>, <<"uuid-1">>, <<"uuid-1","-","2">>}

ExistingSets == {e \in SUBSET ExistingPool : Cardinality(e) <= MaxExisting}

NoCall == [base |-> <<>>, existing |-> {}, uuid |-> <<>>]

EuIdle ==
    /\ eu_pc = "idle"
    /\ eu_in = NoCall
    /\ eu_slug = <<>>
    /\ eu_idx = 0
    /\ eu_out = <<>>

MsIdle ==
    /\ master = EmptyObject
    /\ constructed = FALSE
    /\ before = EmptyObject
    /\ last = [op |-> "none"]
    /\ deleted_exp = {}
    /\ ops_done = 0

\* the stores beside the master store, not in use
GenIdle ==
    /\ gen_index = EmptyObject
    /\ gen_files = <<>>
    /\ pdfkit = FALSE
    /\ gen_before = EmptyObject
    /\ gen_last = [op |-> "none"]
    /\ gen_expect = <<>>
    /\ gen_ops = 0
    /\ gen_deleted = {}

JcIdle ==
    /\ jc_names = <<>>
    /\ jc_inodes = <<>>
    /\ jc_pc = <<>>
    /\ jc_payload = <<>>
    /\ jc_data = <<>>
    /\ jc_fd = <<>>
    /\ jc_exc = <<>>

JobIdle ==
    /\ jobs_dir = <<>>
    /\ job_before = <<>>
    /\ job_last = [op |-> "none"]
    /\ job_ops = 0
    /\ JcIdle

PrIdle ==
    /\ prompts_file = EmptyObject
    /\ pr_last = [op |-> "none"]
    /\ pr_ops = 0

StIdle == GenIdle /\ JobIdle /\ PrIdle /\ openai_api_key = <<>>

InitUnique ==
    /\ StIdle
    /\ eu_pc = "call"
    /\ eu_in \in [base : StringsUpTo(MaxLen), existing : ExistingSets, uuid : UUIDs]
    /\ eu_slug = <<>>
    /\ eu_idx = 0
    /\ eu_out = <<>>
    /\ MsIdle
    /\ ThIdle

\* base.py:47-50: slug = slugify(base); return it if it is free, else idx = 2
EuCall ==
    /\ eu_pc = "call"
    /\ eu_slug' = slugify(eu_in.base, eu_in.uuid)
    /\ IF eu_slug' \notin eu_in.existing
       THEN eu_out' = eu_slug' /\ eu_pc' = "done" /\ eu_idx' = eu_idx
       ELSE eu_idx' = 2 /\ eu_pc' = "loop" /\ eu_out' = eu_out
    /\ UNCHANGED <<eu_in, ms_vars, th_vars, st_vars>>

\* base.py:51-53: one test of the while condition
EuLoop ==
    /\ eu_pc = "loop"
    /\ IF Suffixed(eu_slug, eu_idx) \in eu_in.existing
       THEN eu_idx' = eu_idx + 1 /\ UNCHANGED <<eu_pc, eu_out>>
       ELSE eu_out' = Suffixed(eu_slug, eu_idx) /\ eu_pc' = "done" /\ eu_idx' = eu_idx
    /\ UNCHANGED <<eu_in, eu_slug, ms_vars, th_vars, st_vars>>

NextUnique == EuCall \/ EuLoop

SpecUnique == InitUnique /\ [][NextUnique]_vars

-----------------------------------------------------------------------------
(* SpecSchema: MasterStore construction on a hand-edited master file *)

\* all sequences of exactly n elements of pool
RECURSIVE SeqsOfLen(_, _)
SeqsOfLen(pool, n) ==
    IF n = 0 THEN {<<>>}
    ELSE {Append(s, x) : s \in SeqsOfLen(pool, n - 1), x \in pool}

\* experience entries as a person writes them: without id, with id, with an
\* empty id, with an empty company
RawExperiencePool ==
    {[company |-> <<"a">>],
     [id |-> <<"a">>, company |-> <<"b">>],
     [id |-> <<>>, company |-> <<"A", " ">>],
     [company |-> <<>>, title |-> <<"t">>]}

RawProjectPool ==
    {[name |-> <<"a">>],
     [id |-> <<"a">>, name |-> <<"b">>, description_short |-> <<"d">>,
      skills_used |-> << <<"a">> >>, linked_experience |-> << <<"a">> >>],
     [id |-> <<"a", "-", "2">>, name |-> <<"a">>, skills_used |-> <<>>],
     [id |-> <<>>, year |-> <<"2">>]}

\* skill entries: a plain string, an object without id, a normalized object,
\* objects with a padded label and with an extra key
RawSkillPool ==
    {[str |-> <<" ", "a", " ">>],
     [label |-> <<"a">>],
     [id |-> <<"a">>, label |-> <<"a">>],
     [id |-> <<"b">>, label |-> <<" ", "b">>],
     [id |-> <<"b">>, label |-> <<"b">>, level |-> <<"3">>]}

\* the skills sections holding the entries: all in one category, or in two
RawSkillSections(entries) ==
    {[c \in {<<"l">>} |-> entries]}
    \cup (IF Len(entries) < 2 THEN {}
          ELSE {[c \in {<<"l">>, <<"t">>} |->
                    IF c = <<"l">> THEN <<Head(entries)>> ELSE Tail(entries)]})

\* the master files with i experience entries, j projects and k skill entries;
\* a section without entries is absent from the file
RawFilesWith(i, j, k) ==
    {LET d1 == IF i > 0 THEN Put(EmptyObject, "experience", e) ELSE EmptyObject
         d2 == IF j > 0 THEN Put(d1, "projects", p) ELSE d1
     IN  IF k > 0 THEN Put(d2, "skills", sk) ELSE d2 :
        e \in SeqsOfLen(RawExperiencePool, i),
        p \in SeqsOfLen(RawProjectPool, j),
        sk \in (IF k = 0 THEN {EmptyObject}
                ELSE UNION {RawSkillSections(x) : x \in SeqsOfLen(RawSkillPool, k)})}

RawFiles ==
    UNION {RawFilesWith(n[1], n[2], n[3]) :
             n \in {m \in (0..MaxRawEntries) \X (0..MaxRawEntries) \X (0..MaxRawEntries) :
                      m[1] + m[2] + m[3] <= MaxRawEntries}}

InitSchema ==
    /\ StIdle
    /\ EuIdle
    /\ ThIdle
    /\ master \in RawFiles
    /\ constructed = FALSE
    /\ before = EmptyObject
    /\ last = [op |-> "none"]
    /\ deleted_exp = {}
    /\ ops_done = 0

\* MasterStore.__init__: read the file, back-fill, write if anything changed;
\* a second MasterStore may then be built on the file the first one left
Construct ==
    /\ ~constructed \/ last.op = "construct"
    /\ \E d \in [1..MaxRawEntries -> UUIDs] :
          LET r == EnsureSchema(master, d)
          IN  /\ master' = IF r.wrote THEN r.data ELSE master
              /\ last' = IF constructed
                         THEN [op |-> "reconstruct", wrote |-> r.wrote,
                               raw |-> before, first_wrote |-> last.wrote]
                         ELSE [op |-> "construct", wrote |-> r.wrote]
    /\ before' = master
    /\ constructed' = TRUE
    /\ UNCHANGED <<eu_vars, th_vars, st_vars, deleted_exp, ops_done>>

NextSchema == Construct

SpecSchema == InitSchema /\ [][NextSchema]_vars

-----------------------------------------------------------------------------
(* Spec: a constructed MasterStore used by one client at a time *)

s_a == <<"a">>
s_b == <<"b">>
s_py == <<"p", "y">>
s_go == <<"g", "o">>
s_l == <<"l">>
\* an id that nothing in the file has
s_unknown == <<"z">>

\* a master file as construction leaves it: ids present and distinct.  The
\* second project links an experience id, "z", that never existed.
PopulatedMaster ==
    [experience |->
        <<[id |-> s_a, company |-> <<"A">>, title |-> <<>>, dates |-> <<>>,
           bullets |-> <<>>],
          [id |-> s_b, company |-> <<"B">>, title |-> <<>>, dates |-> <<>>,
           bullets |-> <<>>]>>,
     projects |->
        <<[id |-> s_a, name |-> <<"a">>, year |-> <<"2">>, description_short |-> <<>>,
           bullets |-> <<>>, skills_used |-> <<s_py, s_go>>,
           linked_experience |-> <<s_a, s_b>>],
          [id |-> s_b, name |-> <<"b">>, year |-> <<>>, description_short |-> <<>>,
           bullets |-> <<>>, skills_used |-> <<s_go, s_py>>,
           linked_experience |-> <<s_b, s_unknown, s_a>>]>>,
     skills |-> (s_l :> <<[id |-> s_py, label |-> <<"P", "y">>],
                          [id |-> s_go, label |-> <<"G", "o">>]>>)]

InitialMasters == {EmptyObject, PopulatedMaster}

\* request bodies of POST /api/projects
ProjectPayloads ==
    {EmptyObject,
     [name |-> <<>>],
     [name |-> <<"a">>],
     [name |-> <<" ", "A", "-", "2", " ">>, year |-> <<"2", " ">>,
      bullets |-> << <<" ", "x">>, <<" ">> >>,
      skills_used |-> <<s_py, s_py>>, linked_experience |-> <<s_a, s_a, s_b>>]}

\* request bodies of PUT /api/projects/<id>
ProjectUpdates ==
    {[name |-> <<" ", "c">>],
     [id |-> s_unknown, skills_used |-> <<s_go, s_go>>, notes |-> <<"n">>],
     [linked_experience |-> <<s_b, s_b, s_a>>]}

\* request bodies of POST /api/experience
ExperiencePayloads ==
    {EmptyObject, [company |-> <<>>], [company |-> <<"A", " ">>, title |-> <<"t", " ">>]}

\* request bodies of PUT /api/experience/<id>
ExperienceUpdates == {[title |-> <<" ", "t">>], [id |-> s_unknown, company |-> <<"c">>]}

CategoryInputs == {s_l, <<" ", "t", " ">>, <<" ">>}
LabelInputs == {<<" ", "P", "y">>, <<"!">>, <<>>}

\* the ids a request can name: those in the file and one that is not
IdsOf(items) == {IdAt(items, i) : i \in DOMAIN items} \cup {s_unknown}

SkillIdsOf(data) ==
    UNION {IdsOf(Skills(data)[c]) : c \in DOMAIN Skills(data)} \cup {s_unknown}

Init ==
    /\ EuIdle
    /\ ThIdle
    /\ StIdle
    /\ master \in InitialMasters
    /\ constructed = TRUE
    /\ before = master
    /\ last = [op |-> "none"]
    /\ deleted_exp = {}
    /\ ops_done = 0

\* one request served: the store operation ran on the file's document, r is
\* its outcome and http the status of the response
Served(op, args, r, http) ==
    /\ constructed
    /\ ops_done < MaxOps
    /\ ops_done' = ops_done + 1
    /\ before' = master
    /\ master' = IF r.wrote THEN r.data ELSE master
    /\ last' = [op |-> op, args |-> args, exc |-> r.exc, read |-> r.read,
                wrote |-> r.wrote, ret |-> r.ret, http |-> http]
    /\ UNCHANGED <<eu_vars, th_vars, st_vars, constructed>>

CreateProject ==
    \E payload \in ProjectPayloads, u \in UUIDs :
        LET r == create_project(master, payload, u)
        IN  /\ Served("create_project", <<payload>>, r, api_create_project(r))
            /\ deleted_exp' = {}

UpdateProject ==
    \E id \in IdsOf(Projects(master)), payload \in ProjectUpdates :
        LET r == update_project(master, id, payload)
        IN  /\ Served("update_project", <<id, payload>>, r, api_update_project(r))
            /\ deleted_exp' = IF r.wrote THEN {} ELSE deleted_exp

DeleteProject ==
    \E id \in IdsOf(Projects(master)) :
        LET r == delete_project(master, id)
        IN  /\ Served("delete_project", <<id>>, r, api_delete_project(r))
            /\ UNCHANGED deleted_exp

AddSkill ==
    \E category \in CategoryInputs, label \in LabelInputs, u \in UUIDs :
        LET r == add_skill(master, category, label, u)
        IN  /\ Served("add_skill", <<category, label>>, r, api_add_skill(r))
            /\ UNCHANGED deleted_exp

UpdateSkill ==
    \E category \in {s_l, <<"t">>}, id \in SkillIdsOf(master) :
        LET r == update_skill(master, category, id, <<"X", " ">>)
        IN  /\ Served("update_skill", <<category, id>>, r, api_update_skill(r))
            /\ UNCHANGED deleted_exp

DeleteSkill ==
    \E category \in {s_l, <<"t">>}, id \in SkillIdsOf(master) :
        LET r == delete_skill(master, category, id)
        IN  /\ Served("delete_skill", <<category, id>>, r, api_delete_skill(r))
            /\ UNCHANGED deleted_exp

CreateExperience ==
    \E payload \in ExperiencePayloads, u \in UUIDs :
        LET r == create_experience(master, payload, u)
        IN  /\ Served("create_experience", <<payload>>, r, api_create_experience(r))
            /\ deleted_exp' = deleted_exp \ {r.ret["id"]}

UpdateExperience ==
    \E id \in IdsOf(Experience(master)), payload \in ExperienceUpdates :
        LET r == update_experience(master, id, payload)
        IN  /\ Served("update_experience", <<id, payload>>, r, api_update_experience(r))
            /\ UNCHANGED deleted_exp

DeleteExperience ==
    \E id \in IdsOf(Experience(master)) :
        LET r == delete_experience(master, id)
        IN  /\ Served("delete_experience", <<id>>, r, api_delete_experience(r))
            /\ deleted_exp' = IF r.wrote THEN deleted_exp \cup {id} ELSE deleted_exp

Next ==
    \/ CreateProject
    \/ UpdateProject
    \/ DeleteProject
    \/ AddSkill
    \/ UpdateSkill
    \/ DeleteSkill
    \/ CreateExperience
    \/ UpdateExperience
    \/ DeleteExperience

Spec == Init /\ [][Next]_vars

-----------------------------------------------------------------------------
(* SpecThreads: request threads of the server on one MasterStore.  Every    *)
(* store operation is self._read(), the change of the document in memory,   *)
(* then self._write(data); the lock of the JsonFile is taken inside read    *)
(* and inside write.                                                         *)

\* the requests a thread can serve: a read, and mutating operations on each
\* section of the file
Requests ==
    {[op |-> "list_projects"],
     [op |-> "create_project", payload |-> [name |-> <<"c">>]],
     [op |-> "update_project", id |-> s_a, payload |-> [name |-> <<"d">>]],
     [op |-> "add_skill", category |-> s_l, label |-> <<"X">>],
     [op |-> "delete_skill", category |-> s_l, id |-> s_go],
     [op |-> "delete_experience", id |-> s_b]}

Mutating(req) == req.op # "list_projects"

\* the store operation of a request on the document it read
Apply(req, data, u) ==
    CASE req.op = "list_projects" ->
            [exc |-> "none", read |-> TRUE, wrote |-> FALSE, data |-> data,
             ret |-> None]
      [] req.op = "create_project" -> create_project(data, req.payload, u)
      [] req.op = "update_project" -> update_project(data, req.id, req.payload)
      [] req.op = "add_skill" -> add_skill(data, req.category, req.label, u)
      [] req.op = "delete_skill" -> delete_skill(data, req.category, req.id)
      [] req.op = "delete_experience" -> delete_experience(data, req.id)

InitThreads ==
    /\ StIdle
    /\ EuIdle
    /\ MsIdle
    /\ doc0 \in InitialMasters
    /\ disk = [f \in {"target", "tmp"} |->
                 IF f = "target" /\ doc0 # EmptyObject THEN Content(doc0, "whole")
                 ELSE Missing]
    /\ lock = 0
    /\ th_pc = [t \in Threads |-> "idle"]
    /\ th_req = [t \in Threads |-> [op |-> "none"]]
    /\ th_data = [t \in Threads |-> EmptyObject]
    /\ th_exc = [t \in Threads |-> "none"]
    /\ th_prev = [t \in Threads |-> Missing]
    /\ th_left = [t \in Threads |-> Missing]

\* a request arrives and its handler calls the store operation
Call(t) ==
    /\ th_pc[t] = "idle"
    /\ \E req \in Requests : th_req' = [th_req EXCEPT ![t] = req]
    /\ th_pc' = [th_pc EXCEPT ![t] = "read"]
    /\ UNCHANGED <<disk, lock, th_data, th_exc, th_prev, th_left, doc0, eu_vars, ms_vars, st_vars>>

\* base.py:19: with self._lock
ReadAcquire(t) ==
    /\ th_pc[t] = "read"
    /\ lock = 0
    /\ lock' = t
    /\ th_pc' = [th_pc EXCEPT ![t] = "reading"]
    /\ UNCHANGED <<disk, th_req, th_data, th_exc, th_prev, th_left, doc0, eu_vars, ms_vars, st_vars>>

\* base.py:20-23: {} for a missing file, else json.load; the lock is released
\* on return and on the decode error alike
ReadLoad(t) ==
    /\ th_pc[t] = "reading"
    /\ lock' = 0
    /\ IF ~disk["target"].exists
       THEN /\ th_data' = [th_data EXCEPT ![t] = EmptyObject]
            /\ th_pc' = [th_pc EXCEPT ![t] = "loaded"]
            /\ UNCHANGED th_exc
       ELSE IF Parses(disk["target"])
       THEN /\ th_data' = [th_data EXCEPT ![t] = disk["target"].doc]
            /\ th_pc' = [th_pc EXCEPT ![t] = "loaded"]
            /\ UNCHANGED th_exc
       ELSE /\ th_exc' = [th_exc EXCEPT ![t] = "JSONDecodeError"]
            /\ th_pc' = [th_pc EXCEPT ![t] = "failed"]
            /\ UNCHANGED th_data
    /\ UNCHANGED <<disk, th_req, th_prev, th_left, doc0, eu_vars, ms_vars, st_vars>>

\* the operation's work between self._read() and self._write(data), outside
\* the lock; base.py:26: the payload is serialized before the lock is taken
Modify(t) ==
    /\ th_pc[t] = "loaded"
    /\ \E u \in UUIDs :
          LET r == Apply(th_req[t], th_data[t], u)
          IN  IF r.exc # "none"
              THEN /\ th_exc' = [th_exc EXCEPT ![t] = r.exc]
                   /\ th_pc' = [th_pc EXCEPT ![t] = "failed"]
                   /\ UNCHANGED th_data
              ELSE /\ th_data' = [th_data EXCEPT ![t] = r.data]
                   /\ th_pc' = [th_pc EXCEPT ![t] = IF r.wrote THEN "write" ELSE "done"]
                   /\ UNCHANGED th_exc
    /\ UNCHANGED <<disk, lock, th_req, th_prev, th_left, doc0, eu_vars, ms_vars, st_vars>>

\* base.py:27: with self._lock
WriteAcquire(t) ==
    /\ th_pc[t] = "write"
    /\ lock = 0
    /\ lock' = t
    /\ th_prev' = [th_prev EXCEPT ![t] = disk["target"]]
    /\ th_pc' = [th_pc EXCEPT ![t] = "opening"]
    /\ UNCHANGED <<disk, th_req, th_data, th_exc, th_left, doc0, eu_vars, ms_vars, st_vars>>

\* base.py:29: tmp_path.open("w") creates or truncates the file
WriteOpen(t) ==
    /\ th_pc[t] = "opening"
    /\ disk' = [disk EXCEPT ![TmpPath] = Content(th_data[t], "empty")]
    /\ th_pc' = [th_pc EXCEPT ![t] = "writing"]
    /\ UNCHANGED <<lock, th_req, th_data, th_exc, th_prev, th_left, doc0, eu_vars, ms_vars, st_vars>>

\* base.py:30-31: part of the buffered text reaches the file
WriteFlush(t) ==
    /\ th_pc[t] = "writing"
    /\ \/ /\ disk[TmpPath].written = "empty"
          /\ \E w \in {"prefix", "payload"} :
                disk' = [disk EXCEPT ![TmpPath].written = w]
       \/ /\ disk[TmpPath].written = "prefix"
          /\ disk' = [disk EXCEPT ![TmpPath].written = "payload"]
    /\ UNCHANGED <<lock, th_pc, th_req, th_data, th_exc, th_prev, th_left, doc0, eu_vars, ms_vars, st_vars>>

\* base.py:29-31: leaving the inner with closes the file, all text written
WriteClose(t) ==
    /\ th_pc[t] = "writing"
    /\ disk' = [disk EXCEPT ![TmpPath].written = "whole"]
    /\ th_pc' = [th_pc EXCEPT ![t] = "closed"]
    /\ UNCHANGED <<lock, th_req, th_data, th_exc, th_prev, th_left, doc0, eu_vars, ms_vars, st_vars>>

\* base.py:32: tmp_path.replace(self.path)
Rename(t) ==
    /\ th_pc[t] = "closed"
    /\ disk' = IF TmpPath = "target" THEN disk
               ELSE [f \in DOMAIN disk |->
                        IF f = "target" THEN disk[TmpPath] ELSE Missing]
    /\ th_pc' = [th_pc EXCEPT ![t] = "renamed"]
    /\ UNCHANGED <<lock, th_req, th_data, th_exc, th_prev, th_left, doc0, eu_vars, ms_vars, st_vars>>

\* base.py:27: the outer with releases the lock; write returns
WriteRelease(t) ==
    /\ th_pc[t] = "renamed"
    /\ lock' = 0
    /\ th_pc' = [th_pc EXCEPT ![t] = "done"]
    /\ UNCHANGED <<disk, th_req, th_data, th_exc, th_prev, th_left, doc0, eu_vars, ms_vars, st_vars>>

\* a mutant of WriteError: the error leaves write with the lock still held
WriteErrorKeepsLock(t) ==
    /\ th_pc[t] \in {"opening", "writing", "closed"}
    /\ th_exc' = [th_exc EXCEPT ![t] = "OSError"]
    /\ th_left' = [th_left EXCEPT ![t] = disk["target"]]
    /\ th_pc' = [th_pc EXCEPT ![t] = "failed"]
    /\ UNCHANGED <<disk, lock, th_req, th_data, th_prev, doc0, eu_vars, ms_vars, st_vars>>

\* base.py:27-32: the write is interrupted by an I/O error before the rename;
\* the with statement releases the lock and the error leaves write
WriteError(t) ==
    /\ th_pc[t] \in {"opening", "writing", "closed"}
    /\ lock' = 0
    /\ th_exc' = [th_exc EXCEPT ![t] = "OSError"]
    /\ th_left' = [th_left EXCEPT ![t] = disk["target"]]
    /\ th_pc' = [th_pc EXCEPT ![t] = "failed"]
    /\ UNCHANGED <<disk, th_req, th_data, th_prev, doc0, eu_vars, ms_vars, st_vars>>

NextThreads ==
    \/ \E t \in Threads : Call(t)
    \/ \E t \in Threads : ReadAcquire(t)
    \/ \E t \in Threads : ReadLoad(t)
    \/ \E t \in Threads : Modify(t)
    \/ \E t \in Threads : WriteAcquire(t)
    \/ \E t \in Threads : WriteOpen(t)
    \/ \E t \in Threads : WriteFlush(t)
    \/ \E t \in Threads : WriteClose(t)
    \/ \E t \in Threads : Rename(t)
    \/ \E t \in Threads : WriteRelease(t)
    \/ \E t \in Threads : WriteError(t)

SpecThreads == InitThreads /\ [][NextThreads]_vars

-----------------------------------------------------------------------------
(* C4 *)

\* C4: ensure_unique_id(base, existing) terminates (the loop counter never
\* passes |existing| + 2) and returns a non-empty id outside 'existing':
\* slugify(base) when that is free, otherwise slug-k for the least k >= 2
\* with slug-k free.
EnsureUniqueIdCorrect ==
    /\ eu_idx <= Cardinality(eu_in.existing) + 2
    /\ eu_pc = "done" =>
        LET slug == slugify(eu_in.base, eu_in.uuid)
            top == Cardinality(eu_in.existing) + 2
        IN  /\ eu_out # <<>>
            /\ eu_out \notin eu_in.existing
            /\ eu_out = ensure_unique_id(eu_in.base, eu_in.existing, eu_in.uuid)
            /\ slug \notin eu_in.existing => eu_out = slug
            /\ slug \in eu_in.existing =>
                 \E k \in 2..top :
                    /\ eu_out = slug \o <<"-">> \o ToStr(k)
                    /\ \A j \in 2..(k - 1) :
                          (slug \o <<"-">> \o ToStr(j)) \in eu_in.existing

\* a call whose slug and slug-2 were both taken has returned slug-3
EnsureUniqueIdWitness ==
    /\ eu_pc = "done"
    /\ eu_idx = 3
    /\ eu_slug \in eu_in.existing
    /\ eu_in.base # eu_slug
    /\ eu_out = eu_slug \o <<"-", "3">>

-----------------------------------------------------------------------------
(* C5, C6: the file after MasterStore construction *)

\* the ids that are present in the list are pairwise distinct
PresentIdsDistinct(list) ==
    \A i, j \in DOMAIN list :
        (i < j /\ Truthy(IdAt(list, i)) /\ Truthy(IdAt(list, j)))
            => IdAt(list, i) # IdAt(list, j)

SomeIdMissing(list) == \E i \in DOMAIN list : ~Truthy(IdAt(list, i))

\* every entry has a non-empty id and no two entries share one
IdsDistinctNonEmpty(list) ==
    /\ \A i \in DOMAIN list : Truthy(IdAt(list, i))
    /\ \A i, j \in DOMAIN list : i < j => IdAt(list, i) # IdAt(list, j)

\* C5: after construction on a non-empty master file in which some experience
\* or project entry lacks an id and the ids present are pairwise distinct,
\* every experience and project entry has a non-empty id and the ids of each
\* list are pairwise distinct, whatever the order of the entries.
SchemaIdsDistinct ==
    ( /\ constructed
      /\ before # EmptyObject
      /\ SomeIdMissing(Experience(before)) \/ SomeIdMissing(Projects(before))
      /\ PresentIdsDistinct(Experience(before))
      /\ PresentIdsDistinct(Projects(before)) )
    => /\ IdsDistinctNonEmpty(Experience(master))
       /\ IdsDistinctNonEmpty(Projects(master))

\* every key the entry had keeps its value; an id that was empty counts as
\* missing, not as a value that was present
FieldsKept(old, new) ==
    /\ Len(new) = Len(old)
    /\ \A i \in DOMAIN old : \A k \in DOMAIN old[i] :
          \/ k = "id" /\ ~Truthy(old[i][k])
          \/ k \in DOMAIN new[i] /\ new[i][k] = old[i][k]

\* C6: after construction on a non-empty master file every project has
\* description_short, skills_used and linked_experience (back-filled with "",
\* [] and [] when missing), every skill entry of every category is an object
\* with exactly an id and a stripped label, and every field value already
\* present in a project or experience entry is unchanged.
SchemaBackfilled ==
    (constructed /\ before # EmptyObject) =>
        /\ \A i \in DOMAIN Projects(master) :
              \A k \in {"description_short", "skills_used", "linked_experience"} :
                 /\ k \in DOMAIN Projects(master)[i]
                 /\ k \notin DOMAIN Projects(before)[i] => Projects(master)[i][k] = <<>>
        /\ \A c \in DOMAIN Skills(master) : \A i \in DOMAIN Skills(master)[c] :
              LET entry == Skills(master)[c][i]
              IN  /\ DOMAIN entry = {"id", "label"}
                  /\ Strip(entry["label"]) = entry["label"]
        /\ FieldsKept(Projects(before), Projects(master))
        /\ FieldsKept(Experience(before), Experience(master))

-----------------------------------------------------------------------------
(* C3, C7, C8, C9, C10: the operations of a constructed MasterStore *)

Succeeded(op) == last.op = op /\ last.exc = "none"

\* C3: starting from distinct project ids, after any sequence of operations
\* the project ids in the file are non-empty and pairwise distinct, and the id
\* create_project returned was the id of no project present before the call.
ProjectIdsStayDistinct ==
    /\ IdsDistinctNonEmpty(Projects(master))
    /\ Succeeded("create_project") =>
          /\ Truthy(last.ret["id"])
          /\ \A i \in DOMAIN Projects(before) :
                IdAt(Projects(before), i) # last.ret["id"]

\* create_project met a taken slug whose -2 was taken too: " A-2 " after "a"
ProjectIdsWitness ==
    /\ Succeeded("create_project")
    /\ last.ret["id"] = <<"a", "-", "2", "-", "2">>
    /\ \E i \in DOMAIN Projects(before) : IdAt(Projects(before), i) = <<"a", "-", "2">>

KeyedOps == {"update_project", "delete_project", "update_experience", "delete_experience"}

\* the list the operation looks its id up in
TargetList(op, data) ==
    IF op \in {"update_project", "delete_project"} THEN Projects(data)
    ELSE Experience(data)

\* C7: update_project, delete_project, update_experience and delete_experience
\* with an id that matches no entry raise KeyError without writing (the file
\* is unchanged) and the endpoint answers 404.
UnknownIdRejected ==
    ( /\ last.op \in KeyedOps
      /\ \A i \in DOMAIN TargetList(last.op, before) :
            IdAt(TargetList(last.op, before), i) # last.args[1] )
    => /\ last.exc = "KeyError"
       /\ ~last.wrote
       /\ master = before
       /\ last.http = 404

\* an update of an unknown project was refused while the file held projects
UnknownIdWitness ==
    /\ last.op = "update_project"
    /\ last.args[1] = s_unknown
    /\ Len(Projects(before)) = 2
    /\ last.http = 404

\* C8: after delete_skill(category, skill_id) succeeds the skill is not listed
\* in the category, no project's skills_used holds skill_id, the remaining ids
\* of each skills_used keep their order and every other project field is
\* unchanged.
DeleteSkillUnreferences ==
    Succeeded("delete_skill") =>
        LET category == last.args[1]
            skill_id == last.args[2]
            old == Projects(before)
            new == Projects(master)
        IN  /\ \A i \in DOMAIN Skills(master)[category] :
                  IdAt(Skills(master)[category], i) # skill_id
            /\ Len(new) = Len(old)
            /\ \A i \in DOMAIN new :
                  /\ skill_id \notin Range(Get(new[i], "skills_used", <<>>))
                  /\ DOMAIN new[i] = DOMAIN old[i]
                  /\ \A k \in DOMAIN old[i] :
                        IF k = "skills_used"
                        THEN new[i][k] = SelectSeq(old[i][k], LAMBDA x : x # skill_id)
                        ELSE new[i][k] = old[i][k]

\* the skill was taken out of two projects that list it in different places
DeleteSkillWitness ==
    /\ Succeeded("delete_skill")
    /\ last.args[2] = s_py
    /\ Len(Projects(before)) >= 2
    /\ Projects(before)[1]["skills_used"] = <<s_py, s_go>>
    /\ Projects(before)[2]["skills_used"] = <<s_go, s_py>>
    /\ Projects(master)[2]["skills_used"] = <<s_go>>

\* C9: after delete_experience(id) succeeds the entry is gone and no project
\* links the id; and as long as no project is created or updated, no project
\* links an experience id deleted since (deleted_exp).  Links to ids that
\* never existed are not touched.
DeletedExperienceUnlinked ==
    /\ \A i \in DOMAIN Projects(master) :
          Range(Get(Projects(master)[i], "linked_experience", <<>>)) \cap deleted_exp = {}
    /\ Succeeded("delete_experience") =>
          /\ \A i \in DOMAIN Experience(master) :
                IdAt(Experience(master), i) # last.args[1]
          /\ \A i \in DOMAIN Projects(master) :
                last.args[1] \notin Range(Get(Projects(master)[i], "linked_experience", <<>>))

\* both experience entries were deleted one after the other; the second
\* project keeps only its link to the id that never existed
DeletedExperienceWitness ==
    /\ Succeeded("delete_experience")
    /\ deleted_exp = {s_a, s_b}
    /\ Len(Projects(master)) = 2
    /\ Projects(before)[2]["linked_experience"] # <<s_unknown>>
    /\ Projects(master)[2]["linked_experience"] = <<s_unknown>>

\* C10: add_skill with a blank category or label raises ValueError before
\* reading or writing (file unchanged, 400); otherwise it appends exactly one
\* entry {id, label} with the stripped label to the category, creating the
\* category if absent, with an id no entry of the category had.
AddSkillChecked ==
    last.op = "add_skill" =>
        LET category == Strip(last.args[1])
            label == Strip(last.args[2])
            old == Get(Skills(before), category, <<>>)
        IN  IF category = <<>> \/ label = <<>>
            THEN /\ last.exc = "ValueError"
                 /\ ~last.read /\ ~last.wrote
                 /\ master = before
                 /\ last.http = 400
            ELSE /\ last.exc = "none"
                 /\ last.http = 201
                 /\ category \in DOMAIN Skills(master)
                 /\ LET new == Skills(master)[category]
                    IN  /\ Len(new) = Len(old) + 1
                        /\ SubSeq(new, 1, Len(old)) = old
                        /\ DOMAIN new[Len(new)] = {"id", "label"}
                        /\ new[Len(new)]["label"] = label
                        /\ Truthy(new[Len(new)]["id"])
                        /\ \A i \in DOMAIN old : IdAt(old, i) # new[Len(new)]["id"]
                        /\ last.ret = new[Len(new)]
                 /\ \A c \in DOMAIN Skills(before) :
                       c # category => Skills(master)[c] = Skills(before)[c]

\* a label whose slug was taken in the category got the suffixed id
AddSkillWitness ==
    /\ Succeeded("add_skill")
    /\ last.args[2] = <<" ", "P", "y">>
    /\ last.ret = [id |-> <<"p", "y", "-", "2">>, label |-> <<"P", "y">>]
    /\ Len(Skills(master)[s_l]) = 3

-----------------------------------------------------------------------------
(* C1, C2: threads on one JsonFile *)

\* the documents a serial execution of the threads' requests, in some order
\* in which each succeeds, leaves in the file
RECURSIVE SerialOutcomes(_, _)
SerialOutcomes(doc, T) ==
    IF T = {} THEN {doc}
    ELSE UNION {SerialOutcomes(Apply(th_req[t], doc, None).data, T \ {t}) :
                  t \in {x \in T : Apply(th_req[x], doc, None).exc = "none"}}

Quiet == \A t \in Threads : th_pc[t] \in {"idle", "done", "failed"}

Writers == {t \in Threads : th_pc[t] = "done" /\ Mutating(th_req[t])}

\* C1: when two mutating operations ran concurrently and both returned, the
\* file reflects the effect of both: it is what the operations leave when
\* they run one after the other in some order.
NoLostUpdate ==
    (Quiet /\ Cardinality(Writers) >= 2 /\ \A t \in Threads : th_exc[t] # "OSError")
        => /\ disk["target"].exists
           /\ disk["target"].doc \in SerialOutcomes(doc0, Writers)

\* C2: the target file always holds a complete document: during a write it is
\* the complete previous document until the rename and the complete new one
\* after it, an interrupted write leaves the previous document, and no read
\* meets a partially written document.
WriteAtomic ==
    /\ disk["target"].exists => disk["target"].written = "whole"
    /\ \A t \in Threads :
          /\ th_pc[t] \in {"opening", "writing", "closed"} => disk["target"] = th_prev[t]
          /\ th_pc[t] = "renamed" => disk["target"] = Content(th_data[t], "whole")
          /\ th_exc[t] = "OSError" => th_left[t] = th_prev[t]
          /\ th_exc[t] # "JSONDecodeError"

\* one write was interrupted with half a payload in the .tmp file, and
\* another thread has since read the previous document
WriteAtomicWitness ==
    \E t, r \in Threads :
        /\ th_exc[t] = "OSError"
        /\ disk["tmp"].exists /\ disk["tmp"].written = "prefix"
        /\ disk["target"] = th_prev[t]
        /\ th_pc[r] = "loaded"
        /\ th_data[r] = th_prev[t].doc
        /\ th_data[r] # th_data[t]

-----------------------------------------------------------------------------
(* GenerationStore (generation_store.py): the index document with its       *)
(* "items" list, and the asset files under files_root.  The files are a     *)
(* function from relative paths to texts; the path f"{item_id}/resume.html" *)
(* is the id followed by the element "/resume.html".                        *)

Items(data) == Get(data, "items", <<>>)

str_resume == <<"r","e","s","u","m","e">>

\* generation_store.py:129-142
asset_dir(item_id) == item_id
resume_rel_path(item_id) == item_id \o <<"/resume.html">>
cover_rel_path(item_id) == item_id \o <<"/cover_letter.txt">>
resume_pdf_rel_path(item_id) == item_id \o <<"/resume.pdf">>
cover_pdf_rel_path(item_id) == item_id \o <<"/cover_letter.pdf">>

\* the directory a path lies in
Parent(path) == SubSeq(path, 1, Len(path) - 1)

\* asset_dir.exists()
DirExists(files, dir) == \E path \in DOMAIN files : Parent(path) = dir

\* shutil.rmtree(asset_dir)
RmTree(files, dir) == [path \in {q \in DOMAIN files : Parent(q) # dir} |-> files[path]]

\* "html or ''"
OrEmpty(text) == IF Truthy(text) THEN text ELSE <<>>

\* a mutant of write_resume_html: the text goes to the cover letter's file
write_resume_html_to_cover(files, item_id, html) ==
    Put(files, asset_dir(item_id) \o <<"/cover_letter.txt">>, OrEmpty(html))

\* GenerationStore._write_resume_html / _write_cover_letter
write_resume_html(files, item_id, html) ==
    Put(files, asset_dir(item_id) \o <<"/resume.html">>, OrEmpty(html))

write_cover_letter(files, item_id, text) ==
    Put(files, asset_dir(item_id) \o <<"/cover_letter.txt">>, OrEmpty(text))

\* GenerationStore._read_resume_html / _read_cover_letter
read_resume_html(files, item_id, record) ==
    LET stored == Get(record, "resume_path", None)
        path == IF Truthy(stored) THEN stored ELSE resume_rel_path(item_id)
    IN  IF path \in DOMAIN files THEN files[path] ELSE Get(record, "resume_html", <<>>)

read_cover_letter(files, item_id, record) ==
    LET stored == Get(record, "cover_letter_path", None)
        path == IF Truthy(stored) THEN stored ELSE cover_rel_path(item_id)
    IN  IF path \in DOMAIN files THEN files[path] ELSE Get(record, "cover_letter", <<>>)

\* "record.get(key) or rel if the file exists", generation_store.py:175-187
PdfPath(files, record, key, rel) ==
    LET stored == Get(record, key, None)
    IN  IF Truthy(stored) THEN stored
        ELSE IF rel \in DOMAIN files THEN rel ELSE stored

\* GenerationStore._hydrate_record
hydrate_record(files, item) ==
    LET item_id == item["id"]
        stored_resume == Get(item, "resume_path", None)
        stored_cover == Get(item, "cover_letter_path", None)
        r1 == Put(item, "resume_path",
                  IF Truthy(stored_resume) THEN stored_resume
                  ELSE resume_rel_path(item_id))
        r2 == Put(r1, "cover_letter_path",
                  IF Truthy(stored_cover) THEN stored_cover
                  ELSE cover_rel_path(item_id))
        r3 == Put(r2, "resume_pdf_path",
                  PdfPath(files, r2, "resume_pdf_path", resume_pdf_rel_path(item_id)))
        r4 == Put(r3, "cover_letter_pdf_path",
                  PdfPath(files, r3, "cover_letter_pdf_path",
                          cover_pdf_rel_path(item_id)))
        r5 == Put(r4, "resume_html", read_resume_html(files, item_id, r4))
    IN  Put(r5, "cover_letter", read_cover_letter(files, item_id, r5))

\* the outcome of a GenerationStore operation: the index document and the
\* files it leaves, whether it wrote the index, and the value returned
GenOutcome(index, files, wrote, ret) ==
    [index |-> index, files |-> files, wrote |-> wrote, ret |-> ret]

\* GenerationStore.get_item
get_item(data, files, item_id) ==
    LET idx == FindIndex(Items(data), item_id)
    IN  IF idx = 0 THEN None ELSE hydrate_record(files, Items(data)[idx])

\* the record of generation_store.py:63-83
NewRecord(item_id, payload, now) ==
    [id |-> item_id,
     job_title |-> Get(payload, "job_title", <<>>),
     created_at |-> now,
     job_ad |-> Get(payload, "job_ad", <<>>),
     summary |-> Get(payload, "summary", <<>>),
     experience_ids |-> Get(payload, "experience_ids", <<>>),
     project_ids |-> Get(payload, "project_ids", <<>>),
     skill_labels |-> Get(payload, "skill_labels", <<>>),
     reasoning_effort |-> Get(payload, "reasoning_effort", None),
     verbosity |-> Get(payload, "verbosity", None),
     resume_token_count |-> Get(payload, "resume_token_count", None),
     cover_letter_token_count |-> Get(payload, "cover_letter_token_count", None),
     experience_plan |-> Get(payload, "experience_plan", <<>>),
     project_plan |-> Get(payload, "project_plan", <<>>),
     skills_plan |-> Get(payload, "skills_plan", <<>>),
     resume_path |-> resume_rel_path(item_id),
     cover_letter_path |-> cover_rel_path(item_id),
     resume_pdf_path |-> None,
     cover_letter_pdf_path |-> None]

\* a mutant of create_item: the cover letter's file is not written
create_item_without_cover(data, files, payload, u, now) ==
    LET d1 == SetDefault(data, "items", <<>>)
        items == d1["items"]
        existing_ids == {items[i]["id"] : i \in DOMAIN items}
        item_id == ensure_unique_id(Get(payload, "job_title", str_resume),
                                    existing_ids, u)
        record == NewRecord(item_id, payload, now)
        f1 == write_resume_html(files, item_id, Get(payload, "resume_html", <<>>))
    IN  GenOutcome(Put(d1, "items", Append(items, record)), f1, TRUE,
                   hydrate_record(f1, record))

\* GenerationStore.create_item; now is the reading of the clock
create_item(data, files, payload, u, now) ==
    LET d1 == SetDefault(data, "items", <<>>)
        items == d1["items"]
        existing_ids == {items[i]["id"] : i \in DOMAIN items}
        item_id == ensure_unique_id(Get(payload, "job_title", str_resume),
                                    existing_ids, u)
        record == NewRecord(item_id, payload, now)
        f1 == write_resume_html(files, item_id, Get(payload, "resume_html", <<>>))
        f2 == write_cover_letter(f1, item_id, Get(payload, "cover_letter", <<>>))
    IN  GenOutcome(Put(d1, "items", Append(items, record)), f2, TRUE,
                   hydrate_record(f2, record))

\* a mutant of delete_item: the asset directory is left behind
delete_item_keeps_assets(data, files, item_id) ==
    LET items == Items(data)
        filtered == SelectSeq(items, LAMBDA item : Get(item, "id", None) # item_id)
    IN  IF Len(filtered) = Len(items) THEN GenOutcome(data, files, FALSE, FALSE)
        ELSE GenOutcome(Put(data, "items", filtered), files, TRUE, TRUE)

\* GenerationStore.delete_item
delete_item(data, files, item_id) ==
    LET items == Items(data)
        filtered == SelectSeq(items, LAMBDA item : Get(item, "id", None) # item_id)
    IN  IF Len(filtered) = Len(items) THEN GenOutcome(data, files, FALSE, FALSE)
        ELSE GenOutcome(Put(data, "items", filtered),
                        IF DirExists(files, asset_dir(item_id))
                        THEN RmTree(files, asset_dir(item_id)) ELSE files,
                        TRUE, TRUE)

\* item.update({k: v for k, v in updates.items() if k not in {...}})
RECURSIVE UpdateFrom(_, _, _)
UpdateFrom(item, updates, keys) ==
    IF keys = {} THEN item
    ELSE LET k == CHOOSE x \in keys : TRUE
         IN  UpdateFrom(Put(item, k, updates[k]), updates, keys \ {k})

\* a mutant of update_item: every update key is merged into the record
update_item_inline(data, files, item_id, updates) ==
    LET items == Items(data)
        idx == FindIndex(items, item_id)
    IN  IF idx = 0 THEN GenOutcome(data, files, FALSE, None)
        ELSE LET item == UpdateFrom(items[idx], updates, DOMAIN updates)
             IN  GenOutcome(Put(data, "items", [items EXCEPT ![idx] = item]), files,
                            TRUE, hydrate_record(files, item))

\* GenerationStore.update_item
update_item(data, files, item_id, updates) ==
    LET items == Items(data)
        idx == FindIndex(items, item_id)
    IN  IF idx = 0 THEN GenOutcome(data, files, FALSE, None)
        ELSE LET has_html == "resume_html" \in DOMAIN updates
                 has_cover == "cover_letter" \in DOMAIN updates
                 f1 == IF has_html
                       THEN write_resume_html(files, item_id, updates["resume_html"])
                       ELSE files
                 i1 == IF has_html
                       THEN SetDefault(items[idx], "resume_path", resume_rel_path(item_id))
                       ELSE items[idx]
                 f2 == IF has_cover
                       THEN write_cover_letter(f1, item_id, updates["cover_letter"])
                       ELSE f1
                 i2 == IF has_cover
                       THEN SetDefault(i1, "cover_letter_path", cover_rel_path(item_id))
                       ELSE i1
                 item == UpdateFrom(i2, updates,
                                    DOMAIN updates \ {"resume_html", "cover_letter"})
             IN  GenOutcome(Put(data, "items", [items EXCEPT ![idx] = item]), f2, TRUE,
                            hydrate_record(f2, item))

\* GenerationStore.resume_pdf_paths / cover_letter_pdf_paths (the relative part)
resume_pdf_paths(item_id) == resume_pdf_rel_path(item_id)
cover_letter_pdf_paths(item_id) == cover_pdf_rel_path(item_id)

-----------------------------------------------------------------------------
(* The endpoints of api/server.py over the GenerationStore.  Each yields    *)
(* the status of the response and what the store holds afterwards.  What    *)
(* the AI service and pdfkit do is an input: they fail or they deliver.     *)

\* abort(status): nothing is stored
Aborted(status, index, files) ==
    [status |-> status, index |-> index, files |-> files, wrote |-> FALSE, ret |-> None]

\* json_response(record, status=...) after a store operation
Responded(status, r) ==
    [status |-> status, index |-> r.index, files |-> r.files, wrote |-> r.wrote,
     ret |-> r.ret]

\* the argument of create_item in api_ai_resume_generate, server.py:226-242
PackagePayload(job_ad, result) ==
    [job_title |-> result.job_title,
     job_ad |-> job_ad,
     summary |-> <<"s">>,
     resume_html |-> result.resume_html,
     cover_letter |-> <<>>,
     experience_ids |-> <<>>,
     project_ids |-> <<>>,
     skill_labels |-> <<>>,
     reasoning_effort |-> <<"minimal">>,
     verbosity |-> <<"medium">>,
     resume_token_count |-> None,
     cover_letter_token_count |-> None,
     experience_plan |-> <<>>,
     project_plan |-> <<>>,
     skills_plan |-> <<>>]

\* a mutant of api_ai_resume_generate: the item is created before the
\* generation is known to have succeeded
api_ai_resume_generate_eager(index, files, job_ad0, result, u, now) ==
    LET job_ad == Strip(OrEmpty(job_ad0))
    IN  IF job_ad = <<>> THEN Aborted(400, index, files)
        ELSE LET r == create_item(index, files,
                                  PackagePayload(job_ad, [job_title |-> <<"a">>,
                                                          resume_html |-> <<>>]),
                                  u, now)
             IN  IF result.failed THEN Responded(400, r) ELSE Responded(201, r)

\* api_ai_resume_generate; job_ad0 is payload.get("job_ad"), result what
\* generate_resume_package did
api_ai_resume_generate(index, files, job_ad0, result, u, now) ==
    LET job_ad == Strip(OrEmpty(job_ad0))
    IN  IF job_ad = <<>> THEN Aborted(400, index, files)
        ELSE IF result.failed THEN Aborted(400, index, files)
        ELSE Responded(201, create_item(index, files, PackagePayload(job_ad, result),
                                        u, now))

\* api_ai_resume_update_html; resume_html is payload.get("resume_html")
api_ai_resume_update_html(index, files, item_id, resume_html) ==
    IF resume_html = None THEN Aborted(400, index, files)
    ELSE LET r == update_item(index, files, item_id, [resume_html |-> resume_html])
         IN  IF r.wrote THEN Responded(200, r) ELSE Aborted(404, index, files)

\* api_ai_resume_cover_letter; manual_text is payload.get("cover_letter") and
\* result what generate_cover_letter_text did
api_ai_resume_cover_letter(index, files, item_id, manual_text, result) ==
    IF FindIndex(Items(index), item_id) = 0 THEN Aborted(404, index, files)
    ELSE IF manual_text # None
    THEN Responded(200, update_item(index, files, item_id,
                                    [cover_letter |-> manual_text,
                                     cover_letter_token_count |-> None]))
    ELSE IF result.failed THEN Aborted(400, index, files)
    ELSE Responded(200, update_item(index, files, item_id,
                                    [cover_letter |-> result.cover_letter,
                                     cover_letter_token_count |-> None]))

\* api_ai_resume_update_metadata; payload is the request body
api_ai_resume_update_metadata(index, files, item_id, payload) ==
    IF "job_title" \notin DOMAIN payload THEN Aborted(400, index, files)
    ELSE LET r == update_item(index, files, item_id,
                              [job_title |-> Strip(OrEmpty(payload["job_title"]))])
         IN  IF r.wrote THEN Responded(200, r) ELSE Aborted(404, index, files)

\* api_ai_resume_delete
api_ai_resume_delete(index, files, item_id) ==
    LET r == delete_item(index, files, item_id)
    IN  IF r.ret THEN Responded(200, r) ELSE Aborted(404, index, files)

\* abort(status, description=...) of api_ai_resume_export; step names the check
\* that failed
ExportAborted(status, step, index, files) ==
    Put(Aborted(status, index, files), "step", step)

\* a mutant of api_ai_resume_export: the paths are recorded as soon as the
\* resume PDF exists
api_ai_resume_export_early(index, files, pdfkit_ok, item_id, env) ==
    LET record == get_item(index, files, item_id)
        resume_rel == resume_pdf_paths(item_id)
        cover_rel == cover_letter_pdf_paths(item_id)
        f1 == Put(files, resume_rel, <<"%PDF">>)
        r == update_item(index, f1, item_id,
                         [resume_pdf_path |-> resume_rel,
                          cover_letter_pdf_path |-> cover_rel])
    IN  IF ~pdfkit_ok THEN ExportAborted(500, "pdfkit", index, files)
        ELSE IF FindIndex(Items(index), item_id) = 0
        THEN ExportAborted(404, "item", index, files)
        ELSE IF Strip(Get(record, "resume_html", <<>>)) = <<>>
        THEN ExportAborted(400, "resume_html", index, files)
        ELSE IF ~env.config_ok THEN ExportAborted(500, "configuration", index, files)
        ELSE IF ~env.resume_ok THEN ExportAborted(500, "resume_pdf", index, files)
        ELSE IF ~env.cover_ok
        THEN Put(Responded(500, r), "step", "cover_pdf")
        ELSE LET f2 == Put(f1, cover_rel, <<"%PDF">>)
             IN  Put(Responded(200, update_item(index, f2, item_id,
                                                [resume_pdf_path |-> resume_rel,
                                                 cover_letter_pdf_path |-> cover_rel])),
                     "step", "done")

\* api_ai_resume_export; pdfkit_ok is "pdfkit is not None", env says whether
\* the wkhtmltopdf configuration and the two pdfkit.from_string calls succeed
api_ai_resume_export(index, files, pdfkit_ok, item_id, env) ==
    LET record == get_item(index, files, item_id)
        resume_rel == resume_pdf_paths(item_id)
        cover_rel == cover_letter_pdf_paths(item_id)
        f1 == Put(files, resume_rel, <<"%PDF">>)
    IN  IF ~pdfkit_ok THEN ExportAborted(500, "pdfkit", index, files)
        ELSE IF FindIndex(Items(index), item_id) = 0
        THEN ExportAborted(404, "item", index, files)
        ELSE IF Strip(Get(record, "resume_html", <<>>)) = <<>>
        THEN ExportAborted(400, "resume_html", index, files)
        ELSE IF ~env.config_ok THEN ExportAborted(500, "configuration", index, files)
        ELSE IF ~env.resume_ok THEN ExportAborted(500, "resume_pdf", index, files)
        ELSE IF ~env.cover_ok THEN ExportAborted(500, "cover_pdf", index, f1)
        ELSE LET f2 == Put(f1, cover_rel, <<"%PDF">>)
             IN  Put(Responded(200, update_item(index, f2, item_id,
                                                [resume_pdf_path |-> resume_rel,
                                                 cover_letter_pdf_path |-> cover_rel])),
                     "step", "done")

-----------------------------------------------------------------------------
(* SpecGen: a constructed GenerationStore behind the server's endpoints,    *)
(* one request at a time                                                     *)

\* most requests in one run of SpecGen
MaxGenOps == 3

\* arguments of create_item when the store is called directly
ItemPayloads ==
    {EmptyObject,
     [job_title |-> <<"a">>, resume_html |-> <<"h">>, cover_letter |-> <<"c">>],
     [job_title |-> <<"!">>, resume_html |-> <<" ">>]}

\* what generate_resume_package did: it raised, or it returned a package with
\* a non-blank title and the rendered HTML
ResumeResults ==
    {[failed |-> TRUE, job_title |-> <<>>, resume_html |-> <<>>],
     [failed |-> FALSE, job_title |-> <<"A", " ", "a">>, resume_html |-> <<"h">>]}

\* what generate_cover_letter_text did
CoverResults ==
    {[failed |-> TRUE, cover_letter |-> <<>>],
     [failed |-> FALSE, cover_letter |-> <<"d">>]}

\* payload.get("job_ad") of POST /api/ai/resumes
JobAds == {None, <<" ">>, <<"j">>}

\* what the environment of an export does
ExportEnvs == [config_ok : BOOLEAN, resume_ok : BOOLEAN, cover_ok : BOOLEAN]

\* the ids a request can name: those in the index and one that is not
ItemIds == {Items(gen_index)[i]["id"] : i \in DOMAIN Items(gen_index)} \cup {s_unknown}

\* the clock: created_at differs from request to request
Now == ToStr(gen_ops)

InitGen ==
    /\ EuIdle
    /\ MsIdle
    /\ ThIdle
    /\ JobIdle
    /\ PrIdle
    /\ openai_api_key = <<>>
    /\ gen_index = [items |-> <<>>]
    /\ gen_files = <<>>
    /\ pdfkit \in BOOLEAN
    /\ gen_before = [index |-> gen_index, files |-> gen_files]
    /\ gen_last = [op |-> "none"]
    /\ gen_expect = <<>>
    /\ gen_ops = 0
    /\ gen_deleted = {}

\* one request served with outcome r; expect is what get_item is then known
\* to return for the items created and not touched since
GenServed(op, args, r, expect) ==
    /\ gen_ops < MaxGenOps
    /\ gen_ops' = gen_ops + 1
    /\ gen_before' = [index |-> gen_index, files |-> gen_files]
    /\ gen_index' = r.index
    /\ gen_files' = r.files
    /\ gen_last' = [op |-> op, args |-> args, r |-> r]
    /\ gen_expect' = expect
    /\ gen_deleted' = IF op = "api_ai_resume_delete" /\ r.wrote
                      THEN gen_deleted \cup {args[1]} ELSE gen_deleted
    /\ UNCHANGED <<eu_vars, ms_vars, th_vars, job_vars, pr_vars, openai_api_key, pdfkit>>

\* the expectations without those of item_id
Forget(item_id) ==
    [id \in DOMAIN gen_expect \ {item_id} |-> gen_expect[id]]

Created(r, payload) ==
    Put(gen_expect, r.ret["id"],
        [resume_html |-> Get(payload, "resume_html", <<>>),
         cover_letter |-> Get(payload, "cover_letter", <<>>)])

CreateItem ==
    \E payload \in ItemPayloads, u \in UUIDs :
        LET r == create_item(gen_index, gen_files, payload, u, Now)
        IN  GenServed("create_item", <<payload>>, Responded(201, r), Created(r, payload))

ApiAiResumeGenerate ==
    \E job_ad \in JobAds, result \in ResumeResults, u \in UUIDs :
        LET r == api_ai_resume_generate(gen_index, gen_files, job_ad, result, u, Now)
        IN  GenServed("api_ai_resume_generate", <<job_ad, result>>, r,
                      IF r.wrote
                      THEN Created(r, [resume_html |-> result.resume_html])
                      ELSE gen_expect)

ApiAiResumeUpdateHtml ==
    \E item_id \in ItemIds, resume_html \in {None, <<>>, <<"x">>} :
        LET r == api_ai_resume_update_html(gen_index, gen_files, item_id, resume_html)
        IN  GenServed("api_ai_resume_update_html", <<item_id, resume_html>>, r,
                      IF r.wrote THEN Forget(item_id) ELSE gen_expect)

ApiAiResumeCoverLetter ==
    \E item_id \in ItemIds, manual_text \in {None, <<"m">>}, result \in CoverResults :
        LET r == api_ai_resume_cover_letter(gen_index, gen_files, item_id,
                                            manual_text, result)
        IN  GenServed("api_ai_resume_cover_letter", <<item_id, manual_text, result>>, r,
                      IF r.wrote THEN Forget(item_id) ELSE gen_expect)

ApiAiResumeUpdateMetadata ==
    \E item_id \in ItemIds, payload \in {EmptyObject, [job_title |-> <<"b", " ">>]} :
        LET r == api_ai_resume_update_metadata(gen_index, gen_files, item_id, payload)
        IN  GenServed("api_ai_resume_update_metadata", <<item_id, payload>>, r,
                      IF r.wrote THEN Forget(item_id) ELSE gen_expect)

ApiAiResumeExport ==
    \E item_id \in ItemIds, env \in ExportEnvs :
        LET r == api_ai_resume_export(gen_index, gen_files, pdfkit, item_id, env)
        IN  GenServed("api_ai_resume_export", <<item_id, env>>, r,
                      IF r.wrote THEN Forget(item_id) ELSE gen_expect)

ApiAiResumeDelete ==
    \E item_id \in ItemIds :
        LET r == api_ai_resume_delete(gen_index, gen_files, item_id)
        IN  GenServed("api_ai_resume_delete", <<item_id>>, r,
                      IF r.wrote THEN Forget(item_id) ELSE gen_expect)

\* arguments of update_item when the store is called directly: the keys the
\* server passes, and a key no record has yet
ItemUpdates ==
    {[resume_html |-> <<"x">>],
     [cover_letter |-> <<"y">>, cover_letter_token_count |-> <<"<5>">>],
     [job_title |-> <<"b">>, resume_html |-> <<>>, cover_letter |-> <<"y">>,
      notes |-> <<"n">>]}

UpdateItem ==
    \E item_id \in ItemIds, updates \in ItemUpdates :
        LET r == update_item(gen_index, gen_files, item_id, updates)
        IN  GenServed("update_item", <<item_id, updates>>,
                      Responded(IF r.wrote THEN 200 ELSE 404, r),
                      IF r.wrote THEN Forget(item_id) ELSE gen_expect)

NextGen ==
    \/ CreateItem
    \/ UpdateItem
    \/ ApiAiResumeGenerate
    \/ ApiAiResumeUpdateHtml
    \/ ApiAiResumeCoverLetter
    \/ ApiAiResumeUpdateMetadata
    \/ ApiAiResumeExport
    \/ ApiAiResumeDelete

SpecGen == InitGen /\ [][NextGen]_vars

-----------------------------------------------------------------------------
(* Claims about the GenerationStore *)

ItemIdsOf(index) == {Items(index)[i]["id"] : i \in DOMAIN Items(index)}

GenerateCreatesAfterSuccess ==
    gen_last.op = "api_ai_resume_generate" =>
        LET job_ad == gen_last.args[1]
            result == gen_last.args[2]
            old == Items(gen_before.index)
            new == Items(gen_index)
        IN  IF job_ad = None \/ Strip(job_ad) = <<>> \/ result.failed
            THEN /\ gen_last.r.status = 400
                 /\ gen_index = gen_before.index
                 /\ gen_files = gen_before.files
            ELSE /\ gen_last.r.status = 201
                 /\ Len(new) = Len(old) + 1
                 /\ SubSeq(new, 1, Len(old)) = old
                 /\ new[Len(new)]["id"] = gen_last.r.ret["id"]
                 /\ gen_last.r.ret["resume_html"] = result.resume_html

\* generation failed for a proper job ad while the index held an item
GenerateCreatesWitness ==
    /\ gen_last.op = "api_ai_resume_generate"
    /\ gen_last.args[1] = <<"j">>
    /\ gen_last.args[2].failed
    /\ Len(Items(gen_index)) >= 1

\* C18: POST /api/ai/resumes/<id>/export checks in this order: pdfkit missing
\* (500), unknown item (404), blank resume HTML (400), wkhtmltopdf
\* configuration failure (500); the two PDF paths are recorded in the index only
\* after both PDFs were produced, and whenever a check or a PDF step fails the
\* index is unchanged.
ExportRecordsLast ==
    gen_last.op = "api_ai_resume_export" =>
        LET item_id == gen_last.args[1]
            env == gen_last.args[2]
            r == gen_last.r
            old == gen_before.index
            known == item_id \in ItemIdsOf(old)
            html == get_item(old, gen_before.files, item_id)["resume_html"]
            idx == FindIndex(Items(gen_index), item_id)
        IN  /\ IF ~pdfkit THEN r.status = 500 /\ r.step = "pdfkit"
               ELSE IF ~known THEN r.status = 404 /\ r.step = "item"
               ELSE IF Strip(html) = <<>> THEN r.status = 400 /\ r.step = "resume_html"
               ELSE IF ~env.config_ok THEN r.status = 500 /\ r.step = "configuration"
               ELSE IF ~env.resume_ok \/ ~env.cover_ok THEN r.status = 500
               ELSE r.status = 200 /\ r.step = "done"
            /\ r.step # "done" => gen_index = old
            /\ r.step = "done" =>
                  /\ resume_pdf_rel_path(item_id) \in DOMAIN gen_files
                  /\ cover_pdf_rel_path(item_id) \in DOMAIN gen_files
                  /\ Items(gen_index)[idx]["resume_pdf_path"]
                        = resume_pdf_rel_path(item_id)
                  /\ Items(gen_index)[idx]["cover_letter_pdf_path"]
                        = cover_pdf_rel_path(item_id)

\* the resume PDF was produced and the cover-letter PDF failed
ExportRecordsWitness ==
    /\ gen_last.op = "api_ai_resume_export"
    /\ gen_last.r.step = "cover_pdf"
    /\ resume_pdf_rel_path(gen_last.args[1]) \in DOMAIN gen_files

-----------------------------------------------------------------------------
(* JobConfigStore (job_store.py): the *.json files of the jobs directory, a *)
(* function from file stems to the documents they hold.  The template is    *)
(* jobs/template.json, a file of the same directory (server.py:46).         *)

str_template == <<"t","e","m","p","l","a","t","e">>

\* JobConfigStore._path_for: the stem of the file; u is the uuid slugify draws
\* if it needs one
path_for(slug, u) == slugify(slug, u)

\* the outcome of a JobConfigStore operation: the exception raised ("none" if
\* it returned), the file addressed, the directory afterwards, the value returned
JobOutcome(exc, path, dir, ret) == [exc |-> exc, path |-> path, dir |-> dir, ret |-> ret]

\* JobConfigStore.get_config
get_config(dir, slug, u) ==
    LET path == path_for(slug, u)
    IN  IF path \notin DOMAIN dir THEN JobOutcome("FileNotFoundError", path, dir, None)
        ELSE JobOutcome("none", path, dir, dir[path])

\* job_store.py:74-84: the payload's fields laid over the template
Overlaid(template, payload) ==
    LET d1 == Put(template, "title",
                  Get(payload, "title", Get(template, "title", <<>>)))
        d2 == IF "summary_key" \in DOMAIN payload
              THEN Put(d1, "summary_key", payload["summary_key"]) ELSE d1
        d3 == IF "selected_projects" \in DOMAIN payload
              THEN Put(d2, "selected_projects", payload["selected_projects"]) ELSE d2
        \* bool(...) of a JSON boolean
        d4 == IF "show_freelance" \in DOMAIN payload
              THEN Put(d3, "show_freelance", payload["show_freelance"] = TRUE) ELSE d3
        d5 == IF "skills_order" \in DOMAIN payload
              THEN Put(d4, "skills_order", payload["skills_order"]) ELSE d4
    IN  IF "skills_label_map" \in DOMAIN payload
        THEN Put(d5, "skills_label_map", payload["skills_label_map"]) ELSE d5

\* a mutant of create_config: an existing file is written over
create_config_overwrites(dir, slug, payload, u) ==
    LET path == path_for(slug, u)
    IN  IF str_template \notin DOMAIN dir
        THEN JobOutcome("FileNotFoundError", path, dir, None)
        ELSE LET data == Overlaid(dir[str_template], payload)
             IN  JobOutcome("none", path, Put(dir, path, data), Put(data, "slug", path))

\* JobConfigStore.create_config
create_config(dir, slug, payload, u) ==
    LET path == path_for(slug, u)
    IN  IF path \in DOMAIN dir THEN JobOutcome("FileExistsError", path, dir, None)
        ELSE IF str_template \notin DOMAIN dir
        THEN JobOutcome("FileNotFoundError", path, dir, None)
        ELSE LET data == Overlaid(dir[str_template], payload)
             IN  JobOutcome("none", path, Put(dir, path, data), Put(data, "slug", path))

\* job_store.py:94-98
UpdatedConfig(data, payload) ==
    LET keys == {"title", "summary_key", "selected_projects", "skills_order",
                 "skills_label_map"} \cap DOMAIN payload
        d1 == UpdateFrom(data, payload, keys)
    IN  IF "show_freelance" \in DOMAIN payload
        THEN Put(d1, "show_freelance", payload["show_freelance"] = TRUE) ELSE d1

\* JobConfigStore.update_config
update_config(dir, slug, payload, u) ==
    LET path == path_for(slug, u)
    IN  IF path \notin DOMAIN dir THEN JobOutcome("FileNotFoundError", path, dir, None)
        ELSE LET data == UpdatedConfig(dir[path], payload)
             IN  JobOutcome("none", path, Put(dir, path, data), Put(data, "slug", path))

\* JobConfigStore.delete_config
delete_config(dir, slug, u) ==
    LET path == path_for(slug, u)
    IN  IF path \notin DOMAIN dir THEN JobOutcome("FileNotFoundError", path, dir, None)
        ELSE JobOutcome("none", path, [f \in DOMAIN dir \ {path} |-> dir[f]],
                        [deleted |-> slug])

\* the endpoints of server.py:558-598: the status of the response
api_get_job(r) == IF r.exc = "FileNotFoundError" THEN 404 ELSE 200

\* api_create_job; slug is payload.get("slug")
api_create_job(slug, r) ==
    IF ~Truthy(slug) THEN 400
    ELSE IF r.exc = "FileExistsError" THEN 400
    ELSE IF r.exc = "FileNotFoundError" THEN 500
    ELSE 201

api_update_job(r) == IF r.exc = "FileNotFoundError" THEN 404 ELSE 200
api_delete_job(r) == IF r.exc = "FileNotFoundError" THEN 404 ELSE 200

-----------------------------------------------------------------------------
(* SpecJobs: the job endpoints on one JobConfigStore, one request at a time *)

\* most requests in one run of SpecJobs
MaxJobOps == 3

TemplateConfig ==
    [title |-> <<"T">>, summary_key |-> <<"k">>, selected_projects |-> <<>>,
     show_freelance |-> FALSE, contact |-> <<"c">>]

\* the jobs directory when the server starts: empty, the template alone, or
\* the template and a config
InitialJobDirs ==
    {<<>>,
     (str_template :> TemplateConfig),
     (str_template :> TemplateConfig) @@ (s_a :> Put(TemplateConfig, "title", <<"o">>))}

\* slugs of requests: plain, one that slugify changes, one without any slug
\* character, the template's own name, and none
JobSlugs == {s_a, <<"A", " ">>, <<"!">>, str_template, None}

\* request bodies of POST /api/jobs and PUT /api/jobs/<slug>, without the slug
JobPayloads ==
    {EmptyObject,
     [title |-> <<"x">>, summary_key |-> <<"s">>, selected_projects |-> <<s_a>>,
      show_freelance |-> TRUE, contact |-> <<"d">>]}

InitJobs ==
    /\ EuIdle
    /\ MsIdle
    /\ ThIdle
    /\ GenIdle
    /\ PrIdle
    /\ openai_api_key = <<>>
    /\ jobs_dir \in InitialJobDirs
    /\ job_before = jobs_dir
    /\ job_last = [op |-> "none"]
    /\ job_ops = 0
    /\ JcIdle

\* one request served with outcome r and response status http
JobServed(op, slug, payload, r, http) ==
    /\ job_ops < MaxJobOps
    /\ job_ops' = job_ops + 1
    /\ job_before' = jobs_dir
    /\ jobs_dir' = r.dir
    /\ job_last' = [op |-> op, slug |-> slug, payload |-> payload, r |-> r, http |-> http]
    /\ UNCHANGED <<eu_vars, ms_vars, th_vars, gen_vars, pr_vars, openai_api_key, jc_vars>>

ApiGetJob ==
    \E slug \in JobSlugs \ {None}, u \in UUIDs :
        LET r == get_config(jobs_dir, slug, u)
        IN  JobServed("get_config", slug, EmptyObject, r, api_get_job(r))

ApiCreateJob ==
    \E slug \in JobSlugs, payload \in JobPayloads, u \in UUIDs :
        LET r == IF Truthy(slug) THEN create_config(jobs_dir, slug, payload, u)
                 ELSE JobOutcome("not called", <<>>, jobs_dir, None)
        IN  JobServed("create_config", slug, payload, r, api_create_job(slug, r))

ApiUpdateJob ==
    \E slug \in JobSlugs \ {None}, payload \in JobPayloads, u \in UUIDs :
        LET r == update_config(jobs_dir, slug, payload, u)
        IN  JobServed("update_config", slug, payload, r, api_update_job(r))

ApiDeleteJob ==
    \E slug \in JobSlugs \ {None}, u \in UUIDs :
        LET r == delete_config(jobs_dir, slug, u)
        IN  JobServed("delete_config", slug, EmptyObject, r, api_delete_job(r))

NextJobs == ApiGetJob \/ ApiCreateJob \/ ApiUpdateJob \/ ApiDeleteJob

SpecJobs == InitJobs /\ [][NextJobs]_vars

-----------------------------------------------------------------------------
(* Claims about the JobConfigStore *)

OverlayKeys ==
    {"title", "summary_key", "selected_projects", "show_freelance", "skills_order",
     "skills_label_map"}

\* C14: after create_config(slug, payload) succeeded for a non-empty slug,
\* get_config, update_config and delete_config called with the same slug
\* address the file that was created, and get_config returns the template
\* overlaid with the payload's six fields; after delete_config(slug)
\* get_config(slug) raises FileNotFoundError.
JobConfigRoundTrip ==
    /\ (job_last.op = "create_config" /\ job_last.r.exc = "none") =>
          \A u \in UUIDs :
              LET slug == job_last.slug
                  payload == job_last.payload
                  template == job_before[str_template]
                  laid == OverlayKeys \cap DOMAIN payload
                  g == get_config(jobs_dir, slug, u)
              IN  /\ g.exc = "none"
                  /\ g.path = job_last.r.path
                  /\ DOMAIN g.ret = DOMAIN template \cup laid
                  /\ \A k \in laid : g.ret[k] = payload[k]
                  /\ \A k \in DOMAIN template \ laid : g.ret[k] = template[k]
                  /\ update_config(jobs_dir, slug, EmptyObject, u).exc = "none"
                  /\ update_config(jobs_dir, slug, EmptyObject, u).path = job_last.r.path
                  /\ delete_config(jobs_dir, slug, u).exc = "none"
                  /\ delete_config(jobs_dir, slug, u).path = job_last.r.path
    /\ (job_last.op = "delete_config" /\ job_last.r.exc = "none") =>
          \A u \in UUIDs :
              get_config(jobs_dir, job_last.slug, u).exc = "FileNotFoundError"

-----------------------------------------------------------------------------
(* PromptStore (prompt_store.py) on its JsonFile *)

DEFAULT_PROMPTS ==
    [project_extra_instruction |-> <<>>,
     resume_extra_instruction |-> <<>>,
     cover_letter_extra_instruction |-> <<>>]

\* JSON values that are not strings: null and a number
NonStrings == {None, <<"<5>">>}

\* isinstance(value, str)
IsStr(value) == value \notin NonStrings

\* JsonFile.read: {} when the file is missing
ReadFile(file) == IF file.exists THEN file.doc ELSE EmptyObject

\* {**a, **b}
Merged(a, b) == [k \in DOMAIN a \cup DOMAIN b |-> IF k \in DOMAIN b THEN b[k] ELSE a[k]]

\* PromptStore._ensure_defaults: the file afterwards
ensure_defaults(file) ==
    LET data == ReadFile(file)
    IN  IF data = EmptyObject THEN Content(DEFAULT_PROMPTS, "whole")
        ELSE IF DOMAIN DEFAULT_PROMPTS \subseteq DOMAIN data THEN file
        ELSE Content(Merged(DEFAULT_PROMPTS, data), "whole")

\* PromptStore.get_prompts
get_prompts(file) == Merged(DEFAULT_PROMPTS, ReadFile(file))

\* a mutant of AcceptedUpdates: every key of the update is taken
AcceptedUpdatesAnyKey(updates) == {key \in DOMAIN updates : IsStr(updates[key])}

\* prompt_store.py:41-43: the keys of the update that are applied
AcceptedUpdates(updates) ==
    {key \in DOMAIN updates : key \in DOMAIN DEFAULT_PROMPTS /\ IsStr(updates[key])}

\* PromptStore.update_prompts: the file afterwards and the value returned
update_prompts(file, updates) ==
    LET current == UpdateFrom(get_prompts(file), updates, AcceptedUpdates(updates))
    IN  [file |-> Content(current, "whole"), ret |-> current]

-----------------------------------------------------------------------------
(* SpecPrompts: the prompts file is found as the user left it, the store is *)
(* constructed, then GET and PUT /api/prompts are served                    *)

\* most requests in one run of SpecPrompts
MaxPromptOps == 3

\* data/prompts.json when the server starts
InitialPromptFiles ==
    {Missing,
     Content(EmptyObject, "whole"),
     Content([resume_extra_instruction |-> <<"r">>, note |-> <<"n">>], "whole"),
     Content([project_extra_instruction |-> <<"<5>">>,
              resume_extra_instruction |-> <<>>,
              cover_letter_extra_instruction |-> <<"c">>], "whole")}

\* request bodies of PUT /api/prompts
PromptUpdates ==
    {EmptyObject,
     [project_extra_instruction |-> <<"p">>],
     [resume_extra_instruction |-> None, note |-> <<"m">>, other |-> <<"o">>],
     [resume_extra_instruction |-> <<"q">>],
     [cover_letter_extra_instruction |-> <<"d">>, project_extra_instruction |-> <<"<5>">>]}

InitPrompts ==
    /\ EuIdle
    /\ MsIdle
    /\ ThIdle
    /\ GenIdle
    /\ JobIdle
    /\ openai_api_key = <<>>
    /\ prompts_file \in InitialPromptFiles
    /\ pr_last = [op |-> "none"]
    /\ pr_ops = 0

\* server.py:51: prompt_store = PromptStore(...)
PromptConstruct ==
    /\ pr_last.op = "none"
    /\ prompts_file' = ensure_defaults(prompts_file)
    /\ pr_last' = [op |-> "construct", file |-> prompts_file]
    /\ UNCHANGED <<pr_ops, eu_vars, ms_vars, th_vars, gen_vars, job_vars, openai_api_key>>

ApiGetPrompts ==
    /\ pr_last.op # "none"
    /\ pr_ops < MaxPromptOps
    /\ pr_ops' = pr_ops + 1
    /\ pr_last' = [op |-> "get_prompts", file |-> prompts_file,
                   ret |-> get_prompts(prompts_file)]
    /\ UNCHANGED <<prompts_file, eu_vars, ms_vars, th_vars, gen_vars, job_vars,
                   openai_api_key>>

ApiUpdatePrompts ==
    /\ pr_last.op # "none"
    /\ pr_ops < MaxPromptOps
    /\ \E updates \in PromptUpdates :
          LET r == update_prompts(prompts_file, updates)
          IN  /\ prompts_file' = r.file
              /\ pr_last' = [op |-> "update_prompts", file |-> prompts_file,
                             updates |-> updates, ret |-> r.ret]
    /\ pr_ops' = pr_ops + 1
    /\ UNCHANGED <<eu_vars, ms_vars, th_vars, gen_vars, job_vars, openai_api_key>>

NextPrompts == PromptConstruct \/ ApiGetPrompts \/ ApiUpdatePrompts

SpecPrompts == InitPrompts /\ [][NextPrompts]_vars

\* C15: once the PromptStore is constructed, get_prompts holds the three
\* default keys, whatever update_prompts calls came before; update_prompts
\* changes only default keys whose new value is a string and ignores the rest of
\* the update; a following get_prompts returns what update_prompts returned.
PromptsKeepDefaults ==
    pr_last.op # "none" =>
        LET now == get_prompts(prompts_file)
        IN  /\ DOMAIN DEFAULT_PROMPTS \subseteq DOMAIN now
            /\ pr_last.op = "update_prompts" =>
                  LET old == get_prompts(pr_last.file)
                      updates == pr_last.updates
                  IN  /\ now = pr_last.ret
                      /\ DOMAIN now = DOMAIN old
                      /\ \A k \in DOMAIN now :
                            IF /\ k \in DOMAIN updates
                               /\ k \in DOMAIN DEFAULT_PROMPTS
                               /\ IsStr(updates[k])
                            THEN now[k] = updates[k]
                            ELSE now[k] = old[k]

\* an update with a string for one default key and a number for another, on a
\* file that had a key of its own
PromptsWitness ==
    /\ pr_last.op = "update_prompts"
    /\ "note" \in DOMAIN get_prompts(prompts_file)
    /\ "cover_letter_extra_instruction" \in DOMAIN pr_last.updates
    /\ get_prompts(prompts_file)["cover_letter_extra_instruction"] = <<"d">>
    /\ get_prompts(prompts_file)["project_extra_instruction"] = <<>>

-----------------------------------------------------------------------------
(* POST /api/ai/projects (server.py:95-184) on the MasterStore.  What       *)
(* generate_project_from_context does is an input: it raises AIProjectError, *)
(* it raises another exception, or it returns the project the AI drafted.    *)

\* master_store.ensure_skills(skill_specs), server.py:149.  The class
\* MasterStore (master_store.py:10-311) defines no attribute of this name, so
\* the attribute lookup raises AttributeError before anything is read.
ensure_skills(data, skill_specs) == Raised("AttributeError", FALSE, data)

\* the outcome of the handler: the status of the response, the document of the
\* master file afterwards, whether the AI service was called, and meta.action
AiOutcome(status, data, wrote, ai_called, action, ret) ==
    [status |-> status, data |-> data, wrote |-> wrote, ai_called |-> ai_called,
     action |-> action, ret |-> ret]

\* server.py:146-184: the drafted project is stored
PersistProject(data, idx, project_payload, u) ==
    LET skills == ensure_skills(data, Get(project_payload, "skills", <<>>))
    IN  IF skills.exc # "none"
        THEN AiOutcome(500, data, FALSE, TRUE, "none", None)
        ELSE LET project_data ==
                     [name |-> Get(project_payload, "name", <<>>),
                      year |-> Get(project_payload, "year", <<>>),
                      description_short |-> Get(project_payload, "description_short", <<>>),
                      bullets |-> Get(project_payload, "bullets", <<>>),
                      skills_used |-> skills.ret,
                      linked_experience |-> <<>>]
             IN  IF idx # 0
                 THEN LET r == update_project(skills.data,
                                              Projects(skills.data)[idx]["id"],
                                              project_data)
                      IN  AiOutcome(200, r.data, r.wrote, TRUE, "updated", r.ret)
                 ELSE LET r == create_project(skills.data, project_data, u)
                      IN  AiOutcome(201, r.data, r.wrote, TRUE, "created", r.ret)

\* a mutant of api_ai_project_generate: the project_id is not looked up before
\* the AI service is called
api_ai_project_generate_unchecked(data, api_key, payload, ai, u) ==
    LET context == Strip(OrEmpty(Get(payload, "context", None)))
        project_id == Get(payload, "project_id", None)
        idx == IF Truthy(project_id) THEN FindIndex(Projects(data), project_id) ELSE 0
    IN  IF ~Truthy(api_key) THEN AiOutcome(400, data, FALSE, FALSE, "none", None)
        ELSE IF context = <<>> THEN AiOutcome(400, data, FALSE, FALSE, "none", None)
        ELSE IF ai.kind = "AIProjectError"
        THEN AiOutcome(400, data, FALSE, TRUE, "none", None)
        ELSE IF ai.kind = "Exception"
        THEN AiOutcome(500, data, FALSE, TRUE, "none", None)
        ELSE PersistProject(data, idx, ai.project, u)

\* api_ai_project_generate; api_key is settings.openai_api_key, payload the
\* request body and ai what generate_project_from_context does
api_ai_project_generate(data, api_key, payload, ai, u) ==
    LET context == Strip(OrEmpty(Get(payload, "context", None)))
        project_id == Get(payload, "project_id", None)
        idx == IF Truthy(project_id) THEN FindIndex(Projects(data), project_id) ELSE 0
    IN  IF ~Truthy(api_key) THEN AiOutcome(400, data, FALSE, FALSE, "none", None)
        ELSE IF context = <<>> THEN AiOutcome(400, data, FALSE, FALSE, "none", None)
        ELSE IF Truthy(project_id) /\ idx = 0
        THEN AiOutcome(404, data, FALSE, FALSE, "none", None)
        ELSE IF ai.kind = "AIProjectError"
        THEN AiOutcome(400, data, FALSE, TRUE, "none", None)
        ELSE IF ai.kind = "Exception"
        THEN AiOutcome(500, data, FALSE, TRUE, "none", None)
        ELSE PersistProject(data, idx, ai.project, u)

-----------------------------------------------------------------------------
(* SpecAi: POST /api/ai/projects beside the project endpoints of Spec       *)

\* what generate_project_from_context does
AiResults ==
    {[kind |-> "AIProjectError"],
     [kind |-> "Exception"],
     [kind |-> "project",
      project |-> [name |-> <<"n">>, year |-> <<"2">>, description_short |-> <<"d">>,
                   bullets |-> << <<"x">>, <<"y">> >>,
                   skills |-> <<[label |-> <<"P", "y">>]>>]]}

\* request bodies of POST /api/ai/projects
AiPayloads(data) ==
    {EmptyObject, [context |-> <<" ">>], [context |-> <<"c">>],
     [context |-> <<"c">>, project_id |-> <<>>]}
    \cup {[context |-> <<"c">>, project_id |-> id] : id \in IdsOf(Projects(data))}
    \cup {[project_id |-> s_unknown]}

\* settings.openai_api_key: unset, or a key
ApiKeys == {<<>>, <<"k">>}

InitAi ==
    /\ EuIdle
    /\ ThIdle
    /\ GenIdle
    /\ JobIdle
    /\ PrIdle
    /\ openai_api_key \in ApiKeys
    /\ master \in InitialMasters
    /\ constructed = TRUE
    /\ before = master
    /\ last = [op |-> "none"]
    /\ deleted_exp = {}
    /\ ops_done = 0

ApiAiProjectGenerate ==
    /\ constructed
    /\ ops_done < MaxOps
    /\ \E payload \in AiPayloads(master), ai \in AiResults, u \in UUIDs :
          LET r == api_ai_project_generate(master, openai_api_key, payload, ai, u)
          IN  /\ master' = r.data
              /\ last' = [op |-> "api_ai_project_generate", payload |-> payload,
                          ai |-> ai, r |-> r]
    /\ before' = master
    /\ ops_done' = ops_done + 1
    /\ UNCHANGED <<eu_vars, th_vars, st_vars, constructed, deleted_exp>>

NextAi == ApiAiProjectGenerate \/ CreateProject \/ DeleteProject

SpecAi == InitAi /\ [][NextAi]_vars

\* the request passes the checks of the handler
AiRequestAccepted(payload, data) ==
    /\ Truthy(openai_api_key)
    /\ Strip(OrEmpty(Get(payload, "context", None))) # <<>>
    /\ Truthy(Get(payload, "project_id", None))
          => Get(payload, "project_id", None) \in TruthyIds(Projects(data))

\* C16: with the API key set, a non-blank context and a project returned by the
\* AI call, POST /api/ai/projects stores the project: without project_id one
\* project is added and the answer is 201 with meta.action = created; with the
\* id of an existing project that project is updated in place (same ids, no new
\* project) and the answer is 200 with meta.action = updated.
AiProjectPersisted ==
    (/\ last.op = "api_ai_project_generate"
     /\ AiRequestAccepted(last.payload, before)
     /\ last.ai.kind = "project") =>
        LET old == Projects(before)
            new == Projects(master)
            project_id == Get(last.payload, "project_id", None)
        IN  IF ~Truthy(project_id)
            THEN /\ Len(new) = Len(old) + 1
                 /\ SubSeq(new, 1, Len(old)) = old
                 /\ last.r.status = 201
                 /\ last.r.action = "created"
            ELSE /\ Len(new) = Len(old)
                 /\ \A i \in DOMAIN old : new[i]["id"] = old[i]["id"]
                 /\ new[FindIndex(old, project_id)]["name"] = last.ai.project["name"]
                 /\ last.r.status = 200
                 /\ last.r.action = "updated"

\* C19: POST /api/ai/projects answers 400 without the API key, 400 without a
\* context, 404 for a project_id no project has, each before the AI service is
\* called; an AIProjectError gives 400 and any other exception of the generation
\* 500; in all these cases the master store is unchanged.
AiProjectRejected ==
    last.op = "api_ai_project_generate" =>
        LET payload == last.payload
            project_id == Get(payload, "project_id", None)
            r == last.r
        IN  /\ ~Truthy(openai_api_key) =>
                  r.status = 400 /\ ~r.ai_called /\ master = before
            /\ (Truthy(openai_api_key)
                /\ Strip(OrEmpty(Get(payload, "context", None))) = <<>>) =>
                  r.status = 400 /\ ~r.ai_called /\ master = before
            /\ (/\ Truthy(openai_api_key)
                /\ Strip(OrEmpty(Get(payload, "context", None))) # <<>>
                /\ Truthy(project_id)
                /\ project_id \notin TruthyIds(Projects(before))) =>
                  r.status = 404 /\ ~r.ai_called /\ master = before
            /\ (AiRequestAccepted(payload, before) /\ last.ai.kind = "AIProjectError") =>
                  r.status = 400 /\ r.ai_called /\ master = before
            /\ (AiRequestAccepted(payload, before) /\ last.ai.kind = "Exception") =>
                  r.status = 500 /\ r.ai_called /\ master = before

\* an unknown project_id was refused on a store that holds projects, with an
\* AI service that would have delivered
AiProjectRejectedWitness ==
    /\ last.op = "api_ai_project_generate"
    /\ Truthy(openai_api_key)
    /\ Get(last.payload, "project_id", None) = s_unknown
    /\ Get(last.payload, "context", None) = <<"c">>
    /\ last.ai.kind = "project"
    /\ last.r.status = 404
    /\ Len(Projects(master)) >= 2

-----------------------------------------------------------------------------
(* A claim about update_project, checked under Spec *)

ProjectFields ==
    {"name", "year", "description_short", "bullets", "skills_used", "linked_experience"}

\* C20: update_project changes only those fields of the addressed project that
\* are keys of the payload among name, year, description_short, bullets,
\* skills_used and linked_experience; the project's id, its other fields, its
\* place in the list, the other projects and the rest of the file stay as they
\* were, and other keys of the payload (id among them) are ignored.
UpdateProjectFrame ==
    (last.op = "update_project" /\ last.exc = "none") =>
        LET project_id == last.args[1]
            payload == last.args[2]
            old == Projects(before)
            new == Projects(master)
            idx == FindIndex(old, project_id)
            named == ProjectFields \cap DOMAIN payload
        IN  /\ Len(new) = Len(old)
            /\ \A i \in DOMAIN old : i # idx => new[i] = old[i]
            /\ DOMAIN new[idx] = DOMAIN old[idx] \cup named
            /\ \A k \in DOMAIN old[idx] \ named : new[idx][k] = old[idx][k]
            /\ new[idx]["id"] = project_id
            /\ DOMAIN master = DOMAIN before
            /\ \A k \in DOMAIN before \ {"projects"} : master[k] = before[k]

\* the second project was updated with a payload that also names an id and a
\* key outside the six
UpdateProjectFrameWitness ==
    /\ last.op = "update_project"
    /\ last.exc = "none"
    /\ "id" \in DOMAIN last.args[2]
    /\ "notes" \in DOMAIN last.args[2]
    /\ FindIndex(Projects(before), last.args[1]) = 2
    /\ Projects(master)[2]["skills_used"] = <<s_go>>

-----------------------------------------------------------------------------
(* C21: constructing twice *)

HasStringSkill(data) ==
    \E c \in DOMAIN Skills(data) : \E i \in DOMAIN Skills(data)[c] :
        ~IsDict(Skills(data)[c][i])

HasSkillWithoutId(data) ==
    \E c \in DOMAIN Skills(data) : \E i \in DOMAIN Skills(data)[c] :
        IsDict(Skills(data)[c][i]) /\ "id" \notin DOMAIN Skills(data)[c][i]

HasSkillWithExtraKey(data) ==
    \E c \in DOMAIN Skills(data) : \E i \in DOMAIN Skills(data)[c] :
        IsDict(Skills(data)[c][i]) /\ "level" \in DOMAIN Skills(data)[c][i]

\* C21: a second construction on the file the first construction left writes
\* nothing and leaves the file as it was, whatever the first file held.
SchemaIdempotent ==
    last.op = "reconstruct" => (~last.wrote /\ master = before)

\* a second construction after a first one that wrote a file holding a plain
\* string skill, a skill object without id and a skill object with an extra key
SchemaIdempotentWitness ==
    /\ last.op = "reconstruct"
    /\ last.first_wrote
    /\ HasStringSkill(last.raw)
    /\ HasSkillWithoutId(last.raw)
    /\ HasSkillWithExtraKey(last.raw)

-----------------------------------------------------------------------------
(* C22: update_item *)

AssetKeys == {"resume_html", "cover_letter"}

\* the asset file an update key is written to
AssetPath(item_id, k) ==
    IF k = "resume_html" THEN asset_dir(item_id) \o <<"/resume.html">>
    ELSE asset_dir(item_id) \o <<"/cover_letter.txt">>

\* C22: update_item on an id no item has returns None and writes neither the
\* index nor an asset file; on an item that exists the values of resume_html
\* and cover_letter are in the item's asset files and are not keys of the
\* index record, every other update key has its value in the record, the
\* record's other keys and every other item and file are as they were.
UpdateItemExact ==
    gen_last.op = "update_item" =>
        LET item_id == gen_last.args[1]
            updates == gen_last.args[2]
            old == Items(gen_before.index)
            new == Items(gen_index)
            idx == FindIndex(old, item_id)
            written == {AssetPath(item_id, k) : k \in AssetKeys \cap DOMAIN updates}
        IN  IF idx = 0
            THEN /\ gen_last.r.ret = None
                 /\ ~gen_last.r.wrote
                 /\ gen_index = gen_before.index
                 /\ gen_files = gen_before.files
            ELSE /\ gen_last.r.ret["id"] = item_id
                 /\ \A k \in AssetKeys \cap DOMAIN updates :
                       /\ AssetPath(item_id, k) \in DOMAIN gen_files
                       /\ gen_files[AssetPath(item_id, k)] = updates[k]
                 /\ DOMAIN gen_files = DOMAIN gen_before.files \cup written
                 /\ \A path \in DOMAIN gen_before.files \ written :
                       gen_files[path] = gen_before.files[path]
                 /\ Len(new) = Len(old)
                 /\ \A i \in DOMAIN old : i # idx => new[i] = old[i]
                 /\ AssetKeys \cap DOMAIN new[idx] = {}
                 /\ DOMAIN new[idx] = DOMAIN old[idx] \cup (DOMAIN updates \ AssetKeys)
                 /\ \A k \in DOMAIN updates \ AssetKeys : new[idx][k] = updates[k]
                 /\ \A k \in DOMAIN old[idx] \ DOMAIN updates : new[idx][k] = old[idx][k]

\* one of two items received an update carrying both asset keys and two
\* record keys, one of them new to the record
UpdateItemExactWitness ==
    /\ gen_last.op = "update_item"
    /\ gen_last.r.wrote
    /\ Len(Items(gen_index)) = 2
    /\ AssetKeys \subseteq DOMAIN gen_last.args[2]
    /\ "notes" \in DOMAIN gen_last.args[2]
    /\ gen_files # gen_before.files

-----------------------------------------------------------------------------
(* C23: the index and the asset directories *)

\* every item of the index has both asset files under its directory
AssetsPresent ==
    \A i \in DOMAIN Items(gen_index) :
        LET id == Items(gen_index)[i]["id"]
        IN  /\ asset_dir(id) \o <<"/resume.html">> \in DOMAIN gen_files
            /\ asset_dir(id) \o <<"/cover_letter.txt">> \in DOMAIN gen_files

-----------------------------------------------------------------------------
(* SpecJobThreads: request threads of the server, each inside               *)
(* JobConfigStore.create_config for the same slug.  The store has no lock:  *)
(* every file-system call of create_config and _write is a step of its own. *)

\* the names in the jobs directory: the template, the slug's config and the
\* temporary file of _write, path.with_suffix(".tmp")
n_template == "template.json"
n_config == "a.json"
n_tmp == "a.tmp"

\* request bodies of the concurrent POST /api/jobs
JcPayloads ==
    {[title |-> <<"x">>],
     [title |-> <<"y", "y">>, show_freelance |-> TRUE]}

\* the length of json.dumps(data): the documents differ in their titles
PayloadLen(data) == Len(data["title"])

\* a file just created or truncated by open("w")
EmptyFile == [doc |-> EmptyObject, size |-> 0, torn |-> FALSE]

\* a file holding the complete text of a document
FileOf(data) == [doc |-> data, size |-> PayloadLen(data), torn |-> FALSE]

\* the file after a handle at offset 0 wrote the text of data: bytes beyond
\* the text stay when the file was longer
WrittenAt0(file, data) ==
    IF file.size > PayloadLen(data)
    THEN [doc |-> data, size |-> file.size, torn |-> TRUE]
    ELSE FileOf(data)

\* json.load accepts the file
JcParses(file) == file.size > 0 /\ ~file.torn

InitJobThreads ==
    /\ EuIdle
    /\ MsIdle
    /\ ThIdle
    /\ GenIdle
    /\ PrIdle
    /\ openai_api_key = <<>>
    /\ jobs_dir = <<>>
    /\ job_before = <<>>
    /\ job_last = [op |-> "none"]
    /\ job_ops = 0
    /\ \/ jc_names = <<>> /\ jc_inodes = <<>>
       \/ /\ jc_names = (n_template :> 0)
          /\ jc_inodes = (0 :> FileOf(TemplateConfig))
    /\ jc_pc = [t \in Threads |-> "idle"]
    /\ jc_payload = [t \in Threads |-> EmptyObject]
    /\ jc_data = [t \in Threads |-> EmptyObject]
    /\ jc_fd = [t \in Threads |-> 0]
    /\ jc_exc = [t \in Threads |-> "none"]

JcUnchanged == UNCHANGED <<eu_vars, ms_vars, th_vars, gen_vars, pr_vars, openai_api_key,
                           jobs_dir, job_before, job_last, job_ops>>

\* thread t raises exc out of create_config
JcRaise(t, exc) ==
    /\ jc_exc' = [jc_exc EXCEPT ![t] = exc]
    /\ jc_pc' = [jc_pc EXCEPT ![t] = "done"]

\* POST /api/jobs arrives on thread t
JcCall(t) ==
    /\ jc_pc[t] = "idle"
    /\ \E payload \in JcPayloads : jc_payload' = [jc_payload EXCEPT ![t] = payload]
    /\ jc_pc' = [jc_pc EXCEPT ![t] = "exists"]
    /\ UNCHANGED <<jc_names, jc_inodes, jc_data, jc_fd, jc_exc>>
    /\ JcUnchanged

\* job_store.py:71-72
JcPathExists(t) ==
    /\ jc_pc[t] = "exists"
    /\ IF n_config \in DOMAIN jc_names
       THEN JcRaise(t, "FileExistsError")
       ELSE jc_pc' = [jc_pc EXCEPT ![t] = "template"] /\ UNCHANGED jc_exc
    /\ UNCHANGED <<jc_names, jc_inodes, jc_payload, jc_data, jc_fd>>
    /\ JcUnchanged

\* job_store.py:73-84
JcLoadTemplate(t) ==
    /\ jc_pc[t] = "template"
    /\ IF n_template \notin DOMAIN jc_names
       THEN JcRaise(t, "FileNotFoundError") /\ UNCHANGED jc_data
       ELSE /\ jc_data' = [jc_data EXCEPT ![t] =
                              Overlaid(jc_inodes[jc_names[n_template]].doc,
                                       jc_payload[t])]
            /\ jc_pc' = [jc_pc EXCEPT ![t] = "open"]
            /\ UNCHANGED jc_exc
    /\ UNCHANGED <<jc_names, jc_inodes, jc_payload, jc_fd>>
    /\ JcUnchanged

\* job_store.py:33: tmp_path.open("w") truncates the file the name has, or
\* creates one
JcTmpOpen(t) ==
    /\ jc_pc[t] = "open"
    /\ IF n_tmp \in DOMAIN jc_names
       THEN /\ jc_inodes' = [jc_inodes EXCEPT ![jc_names[n_tmp]] = EmptyFile]
            /\ jc_fd' = [jc_fd EXCEPT ![t] = jc_names[n_tmp]]
            /\ UNCHANGED jc_names
       ELSE /\ jc_names' = jc_names @@ (n_tmp :> t)
            /\ jc_inodes' = (t :> EmptyFile) @@ jc_inodes
            /\ jc_fd' = [jc_fd EXCEPT ![t] = t]
    /\ jc_pc' = [jc_pc EXCEPT ![t] = "close"]
    /\ UNCHANGED <<jc_payload, jc_data, jc_exc>>
    /\ JcUnchanged

\* job_store.py:34-35: the buffered text reaches the file when the handle is
\* closed
JcTmpClose(t) ==
    /\ jc_pc[t] = "close"
    /\ jc_inodes' = [jc_inodes EXCEPT ![jc_fd[t]] = WrittenAt0(@, jc_data[t])]
    /\ jc_pc' = [jc_pc EXCEPT ![t] = "replace"]
    /\ UNCHANGED <<jc_names, jc_payload, jc_data, jc_fd, jc_exc>>
    /\ JcUnchanged

\* job_store.py:36: tmp_path.replace(path), then create_config returns
JcTmpReplace(t) ==
    /\ jc_pc[t] = "replace"
    /\ IF n_tmp \notin DOMAIN jc_names
       THEN JcRaise(t, "FileNotFoundError") /\ UNCHANGED jc_names
       ELSE /\ jc_names' = [n \in (DOMAIN jc_names \ {n_tmp}) \cup {n_config} |->
                               IF n = n_config THEN jc_names[n_tmp] ELSE jc_names[n]]
            /\ jc_pc' = [jc_pc EXCEPT ![t] = "done"]
            /\ UNCHANGED jc_exc
    /\ UNCHANGED <<jc_inodes, jc_payload, jc_data, jc_fd>>
    /\ JcUnchanged

NextJobThreads ==
    \E t \in Threads :
        \/ JcCall(t)
        \/ JcPathExists(t)
        \/ JcLoadTemplate(t)
        \/ JcTmpOpen(t)
        \/ JcTmpClose(t)
        \/ JcTmpReplace(t)

SpecJobThreads == InitJobThreads /\ [][NextJobThreads]_vars

\* the threads whose create_config returned
JcSucceeded == {t \in Threads : jc_pc[t] = "done" /\ jc_exc[t] = "none"}

\* C24: of the concurrent create_config calls for one slug at most one
\* returns and every other raises FileExistsError, and the config a returned
\* call wrote is the file's content: no other create_config wrote over it.
CreateConfigExclusive ==
    /\ Cardinality(JcSucceeded) <= 1
    /\ \A t \in JcSucceeded :
          /\ n_config \in DOMAIN jc_names
          /\ JcParses(jc_inodes[jc_names[n_config]])
          /\ jc_inodes[jc_names[n_config]].doc = jc_data[t]
    /\ (n_template \in DOMAIN jc_names /\ \A t \in Threads : jc_pc[t] = "done")
          => /\ Cardinality(JcSucceeded) = 1
             /\ \A t \in Threads \ JcSucceeded : jc_exc[t] = "FileExistsError"

-----------------------------------------------------------------------------
(* SpecLock: the threads of SpecThreads under fair scheduling, on a master  *)
(* file that is well-formed or was left malformed by a hand edit            *)

\* the requests of SpecLock: one that only reads and one that writes
LockRequests ==
    {[op |-> "list_projects"],
     [op |-> "update_project", id |-> s_a, payload |-> [name |-> <<"d">>]]}

InitLock ==
    /\ StIdle
    /\ EuIdle
    /\ MsIdle
    /\ doc0 = PopulatedMaster
    /\ \E written \in {"whole", "prefix"} :
          disk = [f \in {"target", "tmp"} |->
                    IF f = "target" THEN Content(doc0, written) ELSE Missing]
    /\ lock = 0
    /\ th_pc = [t \in Threads |-> "idle"]
    /\ th_req = [t \in Threads |-> [op |-> "none"]]
    /\ th_data = [t \in Threads |-> EmptyObject]
    /\ th_exc = [t \in Threads |-> "none"]
    /\ th_prev = [t \in Threads |-> Missing]
    /\ th_left = [t \in Threads |-> Missing]

\* a request arrives and its handler calls the store operation
LockCall(t) ==
    /\ th_pc[t] = "idle"
    /\ \E req \in LockRequests : th_req' = [th_req EXCEPT ![t] = req]
    /\ th_pc' = [th_pc EXCEPT ![t] = "read"]
    /\ UNCHANGED <<disk, lock, th_data, th_exc, th_prev, th_left, doc0, eu_vars, ms_vars, st_vars>>

\* with self._lock, in read or in write
Acquire(t) == ReadAcquire(t) \/ WriteAcquire(t)

\* the steps of thread t that need nothing but the processor
Proceed(t) ==
    \/ ReadLoad(t)
    \/ Modify(t)
    \/ WriteOpen(t)
    \/ WriteClose(t)
    \/ Rename(t)
    \/ WriteRelease(t)

NextLock ==
    \/ \E t \in Threads : LockCall(t)
    \/ \E t \in Threads : ReadAcquire(t)
    \/ \E t \in Threads : ReadLoad(t)
    \/ \E t \in Threads : Modify(t)
    \/ \E t \in Threads : WriteAcquire(t)
    \/ \E t \in Threads : WriteOpen(t)
    \/ \E t \in Threads : WriteFlush(t)
    \/ \E t \in Threads : WriteClose(t)
    \/ \E t \in Threads : Rename(t)
    \/ \E t \in Threads : WriteRelease(t)
    \/ \E t \in Threads : WriteError(t)

\* a thread that can run does run; a thread whose acquire is possible again
\* and again gets the lock.  Requests need not arrive and I/O errors need not
\* happen.
LockFairness ==
    \A t \in Threads : SF_vars(Acquire(t)) /\ WF_vars(Proceed(t))

SpecLock == InitLock /\ [][NextLock]_vars /\ LockFairness

\* thread t is inside the with block of read or of write
InsideLock(t) == th_pc[t] \in {"reading", "opening", "writing", "closed", "renamed"}

\* the lock is held by exactly the thread inside read or write, if any
LockHeldInsideOnly ==
    /\ lock \in Threads \cup {0}
    /\ \A t \in Threads : (lock = t) <=> InsideLock(t)

\* C25: the lock is held only by a thread inside one read or one write, it is
\* free after a read or write returned or raised (a malformed file, an I/O
\* error), a thread about to acquire it does not hold it, and under fair
\* scheduling every thread that called a store operation returns or raises.
LockReleasedAndLive ==
    /\ []LockHeldInsideOnly
    /\ \A t \in Threads :
          (th_pc[t] \in {"read", "write"}) ~> (th_pc[t] \in {"done", "failed"})

\* a write of one thread failed on an I/O error and another thread has since
\* taken the lock and renamed its file
LockReleasedWitness ==
    \E t, u \in Threads :
        /\ t # u
        /\ th_exc[t] = "OSError"
        /\ th_pc[t] = "failed"
        /\ lock = u
        /\ th_pc[u] = "renamed"

\* a read failed on the malformed file and another thread has since taken the
\* lock
LockReleasedAfterDecodeError ==
    \E t, u \in Threads :
        /\ t # u
        /\ th_exc[t] = "JSONDecodeError"
        /\ lock = u
=============================================================================
